---- MODULE Spec2Model ----
(***************************************************************************)
(* Model of loggerect's compile-time call-site rewriter (the unplugin /    *)
(* Vite transformCode and the webpack loader's transformCode) and of its   *)
(* runtime stack-location resolver (parseStackFrame, getSourceLocation,    *)
(* createLogEntry).                                                        *)
(*                                                                         *)
(* A source buffer is a sequence of lexemes.  Punctuation, quotes,         *)
(* whitespace and the backslash are one lexeme per character; a monitored  *)
(* identifier ("useLogger", "withLogger", "logger.info"), the keyword      *)
(* "function" and any other word are one lexeme each.  Offsets are         *)
(* 1-based lexeme indices: JavaScript index j is index j + 1 here, and the *)
(* JavaScript result -1 ("not found") is NotFound = 0.                     *)
(***************************************************************************)
EXTENDS Integers, Sequences, FiniteSets, TLC

VARIABLES
  code,        \* the source text handed to transformCode
  id,          \* the file's logical path (a sequence of path lexemes)
  pc,          \* position in the run: which step comes next
  s,           \* the unplugin's MagicString
  hasChanges,  \* the unplugin's hasChanges flag
  ret,         \* what the unplugin's transformCode returned
  allMatches,  \* the loader's collected matches, sorted
  result,      \* the loader's result text
  history,     \* the finished invocations before this one, oldest first
  config,          \* the runtime configuration read by shouldIncludeSourcePath
  stack,           \* what new Error().stack yields inside getSourceLocation
  skipFrames,      \* createLogEntry's skipFrames argument
  context,         \* the log call's context (the Logger's this.context)
  call,            \* the call site that makes the log call
  frames,          \* getSourceLocation's frames array
  userFrameIndex,  \* getSourceLocation's userFrameIndex (1-based)
  sourceLocation,  \* the record getSourceLocation builds and returns
  entry,           \* the location fields of the LogEntry
  rpc,             \* position in the log call: which step comes next
  logged,             \* the number of entries handed to processLog so far
  accepted,           \* the entries processLog has accepted, in order
  logBatch,           \* logProcessor's logBatch
  batchTimer,         \* logProcessor's batchTimer: a timeout id, or null
  timeouts,           \* the ids of the pending timeouts
  flushing,           \* the flushLogs call in progress and its local batch
  output,             \* the entries handed to outputToConsole, in order
  transports,         \* the transports Set, in insertion order
  runs,               \* the runTransports invocations, in the order started
  microtasks,         \* the runs whose await has settled, in the order settled
  calls,              \* the transport invocations: transport and entry, in order
  errors,             \* the transport errors reported on the console
  performanceTimers,  \* logger.ts' performanceTimers Map: label to start time
  measures,           \* the Logger.measure calls in progress
  measurements,       \* the PerformanceMeasurements timeEnd has returned
  warnings,           \* the labels timeEnd has warned about
  now                 \* safePerformanceNow()

rewriterVars == <<code, id, pc, s, hasChanges, ret, allMatches, result, history>>

resolverVars ==
  <<config, stack, skipFrames, context, call, frames, userFrameIndex,
    sourceLocation, entry, rpc>>

processorVars ==
  <<logged, accepted, logBatch, batchTimer, timeouts, flushing, output, transports,
    runs, microtasks, calls, errors>>

timerVars == <<performanceTimers, measures, measurements, warnings, now>>

loggerVars == <<processorVars, timerVars>>

vars == <<rewriterVars, resolverVars, loggerVars>>

----------------------------------------------------------------------------
(* Lexemes *)

LOGRECT_HOOKS ==
  {"useLogger", "useLifecycleLogger", "useRenderLogger", "usePropChangeLogger",
   "useStateLogger", "useEffectLogger", "useCallbackLogger", "useMemoLogger",
   "useTimer", "useConditionalLogger", "useWhyDidYouRender"}

LOGRECT_HOCS == {"withLogger", "withLoggerRef"}

\* receiver.method for receiver in (logger|log), method in LOGGER_METHODS
LOGGER_CALLS ==
  {"logger.trace", "logger.debug", "logger.info", "logger.warn", "logger.error",
   "logger.log", "log.trace", "log.debug", "log.info", "log.warn", "log.error",
   "log.log"}

NotFound == 0

WS == {" ", "\n"}

\* the backquote character is written "BQ"
BQ == "BQ"

QUOTES == {"\"", "'", BQ}

\* every lexeme that is not made of word characters
PUNCT ==
  WS \cup QUOTES \cup
  {"(", ")", "{", "}", "[", "]", "<", ">", ",", ":", ";", "\\", "/", "*", "$",
   "=", "+", "?", "#"}

IsWord(t) == t \notin PUNCT

At(text, i) == IF i >= 1 /\ i <= Len(text) THEN text[i] ELSE ""

----------------------------------------------------------------------------
(* String helpers of the JavaScript runtime, on lexeme sequences *)

RECURSIVE SkipWS(_, _)
\* the first index >= i that holds no whitespace (Len + 1 when there is none)
SkipWS(text, i) ==
  IF i <= Len(text) /\ text[i] \in WS THEN SkipWS(text, i + 1) ELSE i

RECURSIVE SkipWSBack(_, _)
SkipWSBack(text, i) ==
  IF i >= 1 /\ text[i] \in WS THEN SkipWSBack(text, i - 1) ELSE i

\* String.prototype.trim
Trim(text) ==
  LET a == SkipWS(text, 1)
      b == SkipWSBack(text, Len(text))
  IN IF a > b THEN <<>> ELSE SubSeq(text, a, b)

\* String.prototype.slice(from, to) with 1-based from and exclusive to
Slice(text, from, to) == SubSeq(text, from, to - 1)

Includes(text, t) == \E i \in 1..Len(text) : text[i] = t

StartsWith(text, t) == Len(text) >= 1 /\ text[1] = t

EndsWith(text, t) == Len(text) >= 1 /\ text[Len(text)] = t

\* String.prototype.lastIndexOf(t, from): the last index <= from holding t
LastIndexOf(text, t, from) ==
  LET last == IF from < Len(text) THEN from ELSE Len(text)
  IN IF \A i \in 1..last : text[i] # t THEN NotFound
     ELSE CHOOSE i \in 1..last : text[i] = t /\ \A j \in (i + 1)..last : text[j] # t

----------------------------------------------------------------------------
(* Call patterns: the regular expressions of createCallPattern and the     *)
(* logger-method pattern, matched at one index.  Each gives the index of   *)
(* the call's opening parenthesis, or NotFound.                            *)

\* \b before the name
WordBoundaryBefore(text, p) == p = 1 \/ ~IsWord(text[p - 1])

\* what the lookbehind (?<!function\s+) rejects: "function", then one or more
\* whitespace characters, right before the name
FunctionKeywordBefore(text, p) ==
  \E k \in 1..(p - 2) :
    /\ text[k] = "function"
    /\ \A j \in (k + 1)..(p - 1) : text[j] \in WS

RECURSIVE InnerGenericClose(_, _)
\* <[^<>]*> : from the index after the inner "<", the index of its ">"
InnerGenericClose(text, i) ==
  IF i > Len(text) THEN NotFound
  ELSE IF text[i] = ">" THEN i
  ELSE IF text[i] = "<" THEN NotFound
  ELSE InnerGenericClose(text, i + 1)

RECURSIVE GenericSuffixEnd(_, _)
\* <(?:[^<>]|<[^<>]*>)*> : from the index after the outer "<", the index after
\* its closing ">"
GenericSuffixEnd(text, i) ==
  IF i > Len(text) THEN NotFound
  ELSE IF text[i] = ">" THEN i + 1
  ELSE IF text[i] = "<"
    THEN LET j == InnerGenericClose(text, i + 1)
         IN IF j = NotFound THEN NotFound ELSE GenericSuffixEnd(text, j + 1)
  ELSE GenericSuffixEnd(text, i + 1)

\* \s*\( from index a
OpenParenFrom(text, a) ==
  LET j == SkipWS(text, a)
  IN IF At(text, j) = "(" THEN j ELSE NotFound

\* (?<!function\s+)\b(names)(?:<...>)?\s*\(
createCallPattern(functionNames, text, p) ==
  IF \/ text[p] \notin functionNames
     \/ ~WordBoundaryBefore(text, p)
     \/ FunctionKeywordBefore(text, p)
  THEN NotFound
  ELSE LET g == IF At(text, p + 1) = "<"
                 THEN GenericSuffixEnd(text, p + 2) ELSE NotFound
           withGeneric == IF g = NotFound THEN NotFound
                          ELSE OpenParenFrom(text, g)
       IN IF withGeneric # NotFound THEN withGeneric
          ELSE OpenParenFrom(text, p + 1)

\* the unplugin's  \b(logger|log)\.(trace|debug|info|warn|error|log)\s*\(
loggerMethodPattern(text, p) ==
  IF text[p] \notin LOGGER_CALLS \/ ~WordBoundaryBefore(text, p)
  THEN NotFound
  ELSE OpenParenFrom(text, p + 1)

\* the loader's pattern, which adds the lookbehind (?<!function\s+)
loaderLoggerMethodPattern(text, p) ==
  IF FunctionKeywordBefore(text, p) THEN NotFound
  ELSE loggerMethodPattern(text, p)

PatternAt(kind, text, p) ==
  CASE kind = "hook" -> createCallPattern(LOGRECT_HOOKS, text, p)
    [] kind = "hoc" -> createCallPattern(LOGRECT_HOCS, text, p)
    [] kind = "logger" -> loggerMethodPattern(text, p)
    [] kind = "loaderLogger" -> loaderLoggerMethodPattern(text, p)

RECURSIVE ExecAll(_, _, _)
\* while ((match = pattern.exec(code)) !== null): every match from index i on,
\* the search resuming after the opening parenthesis of the last match
ExecAll(kind, text, i) ==
  LET hits == {p \in i..Len(text) : PatternAt(kind, text, p) # NotFound}
  IN IF hits = {} THEN <<>>
     ELSE LET first == CHOOSE p \in hits : \A q \in hits : p <= q
              o == PatternAt(kind, text, first)
          IN <<[index |-> first, open |-> o]>> \o ExecAll(kind, text, o + 1)

----------------------------------------------------------------------------
(* Scanners *)

\* one pass of the while loop at index i: the new values of depth, inString,
\* stringChar, inTemplate and templateDepth
FindClosingParenStep(text, i, v) ==
  LET char == text[i]
      prevChar == At(text, i - 1)
  IN
  IF ~v.inString /\ ~v.inTemplate /\ char \in QUOTES
  THEN IF char = BQ
       THEN [v EXCEPT !.inTemplate = TRUE, !.templateDepth = 1]
       ELSE [v EXCEPT !.inString = TRUE, !.stringChar = char]
  ELSE IF v.inString /\ char = v.stringChar /\ prevChar # "\\"
  THEN [v EXCEPT !.inString = FALSE, !.stringChar = ""]
  ELSE IF v.inTemplate
  THEN IF char = BQ /\ prevChar # "\\"
       THEN [v EXCEPT !.templateDepth = @ - 1,
                      !.inTemplate = (v.templateDepth - 1 # 0)]
       ELSE IF char = "$" /\ At(text, i + 1) = "{"
       THEN [v EXCEPT !.templateDepth = @ + 1]
       ELSE v
  ELSE IF ~v.inString /\ ~v.inTemplate
  THEN IF char = "(" THEN [v EXCEPT !.depth = @ + 1]
       ELSE IF char = ")" THEN [v EXCEPT !.depth = @ - 1]
       ELSE v
  ELSE v

RECURSIVE FindClosingParenFrom(_, _, _)
\* while (i < code.length && depth > 0) { ... i++ }  return depth === 0 ? i - 1 : -1
FindClosingParenFrom(text, i, v) ==
  IF i <= Len(text) /\ v.depth > 0
  THEN FindClosingParenFrom(text, i + 1, FindClosingParenStep(text, i, v))
  ELSE IF v.depth = 0 THEN i - 1 ELSE NotFound

\* findClosingParen without the depth counter: the first closing parenthesis
findClosingParenNoDepth(text, startIndex) ==
  LET closes == {j \in startIndex..Len(text) : text[j] = ")"}
  IN IF closes = {} THEN NotFound ELSE CHOOSE j \in closes : \A i \in closes : j <= i

\* the index of the parenthesis that closes the one before startIndex
findClosingParen(text, startIndex) ==
  FindClosingParenFrom(text, startIndex,
                       [depth |-> 1, inString |-> FALSE, stringChar |-> "",
                        inTemplate |-> FALSE, templateDepth |-> 0])

\* 1 + the number of newlines before position
getLineNumber(text, position) ==
  1 + Cardinality({i \in 1..Len(text) : i < position /\ text[i] = "\n"})

\* one pass of the for loop: the new values of i, inString, stringChar,
\* inSingleComment and inMultiComment
InsideStep(text, v) ==
  LET char == At(text, v.i)
      nextChar == At(text, v.i + 1)
      next == [v EXCEPT !.i = @ + 1]
  IN
  IF v.inSingleComment
  THEN [next EXCEPT !.inSingleComment = (char # "\n")]
  ELSE IF v.inMultiComment
  THEN IF char = "*" /\ nextChar = "/"
       THEN [v EXCEPT !.i = @ + 2, !.inMultiComment = FALSE]
       ELSE next
  ELSE IF v.inString
  THEN IF char = v.stringChar /\ At(text, v.i - 1) # "\\"
       THEN [next EXCEPT !.inString = FALSE, !.stringChar = ""]
       ELSE next
  ELSE IF char = "/" /\ nextChar = "/"
  THEN [v EXCEPT !.i = @ + 2, !.inSingleComment = TRUE]
  ELSE IF char = "/" /\ nextChar = "*"
  THEN [v EXCEPT !.i = @ + 2, !.inMultiComment = TRUE]
  ELSE IF char \in QUOTES
  THEN [next EXCEPT !.inString = TRUE, !.stringChar = char]
  ELSE next

RECURSIVE InsideFrom(_, _, _)
\* for (let i = 0; i < position; i++) { ... }  return inString || ...
InsideFrom(text, position, v) ==
  IF v.i < position
  THEN InsideFrom(text, position, InsideStep(text, v))
  ELSE v.inString \/ v.inSingleComment \/ v.inMultiComment

InsideStart ==
  [i |-> 1, inString |-> FALSE, stringChar |-> "", inSingleComment |-> FALSE,
   inMultiComment |-> FALSE]

\* the scan stopping one character short of the position
isInsideShortScan(text, position) ==
  InsideFrom(text, position - 1, InsideStart)

isInsideStringOrComment(text, position) ==
  InsideFrom(text, position, InsideStart)

----------------------------------------------------------------------------
(* Path cleaning.  A path is a sequence of path lexemes: "/" separators,   *)
(* directory and file names, a file extension such as ".tsx" after the     *)
(* file name, the prefix "file://", and "?" or "#" before a query or hash. *)

MARKERS == <<"src", "app", "pages", "components", "lib">>

JS_EXTENSIONS == {".js", ".ts", ".tsx", ".jsx"}

\* cleaned.lastIndexOf("/" + name + "/")
LastMarkerIndex(path, name) ==
  LET hits == {i \in 1..(Len(path) - 2) :
                 path[i] = "/" /\ path[i + 1] = name /\ path[i + 2] = "/"}
  IN IF hits = {} THEN NotFound ELSE CHOOSE i \in hits : \A j \in hits : j <= i

\* the first marker of MARKERS, in order, that the path holds (0 when none)
FirstMarker(path) ==
  LET found == {k \in 1..Len(MARKERS) : LastMarkerIndex(path, MARKERS[k]) # NotFound}
  IN IF found = {} THEN 0 ELSE CHOOSE k \in found : \A j \in found : k <= j

SlashIndexes(path) == {i \in 1..Len(path) : path[i] = "/"}

\* parts.slice(-2).join("/") for parts = path.split("/")
LastTwoParts(path) ==
  LET sl == SlashIndexes(path)
      last == CHOOSE i \in sl : \A j \in sl : j <= i
      before == sl \ {last}
      prev == CHOOSE i \in before : \A j \in before : j <= i
  IN SubSeq(path, prev + 1, Len(path))

\* the unplugin's (and the Vite plugin's) cleanFilePath
cleanFilePath(filename) ==
  LET k == FirstMarker(filename)
  IN IF k # 0
     THEN SubSeq(filename, LastMarkerIndex(filename, MARKERS[k]) + 1, Len(filename))
     ELSE IF Cardinality(SlashIndexes(filename)) + 1 > 2
          THEN LastTwoParts(filename)
          ELSE filename

\* cleaned.replace(/\.(js|ts|tsx|jsx)$/, "")
StripJsExtension(path) ==
  IF Len(path) >= 1 /\ path[Len(path)] \in JS_EXTENSIONS
  THEN SubSeq(path, 1, Len(path) - 1) ELSE path

\* text.split(sep)[0]
BeforeFirst(path, sep) ==
  LET hits == {i \in 1..Len(path) : path[i] = sep}
  IN IF hits = {} THEN path
     ELSE SubSeq(path, 1, (CHOOSE i \in hits : \A j \in hits : i <= j) - 1)

\* text.replace(/^file:\/\//, "")
StripFileScheme(path) ==
  IF Len(path) >= 1 /\ path[1] = "file://" THEN Tail(path) ELSE path

\* the index of the first part named src, app or pages: the index of its
\* lexeme in the path (0 when none); a part is the text between separators
FirstRootPart(path) ==
  LET hits == {i \in 1..Len(path) :
                 /\ path[i] \in {"src", "app", "pages"}
                 /\ (i = 1 \/ path[i - 1] = "/")
                 /\ (i = Len(path) \/ path[i + 1] = "/")}
  IN IF hits = {} THEN 0 ELSE CHOOSE i \in hits : \A j \in hits : i <= j

\* the loader's cleanFilePath
loaderCleanFilePath(filename) ==
  LET cleaned == StripFileScheme(BeforeFirst(BeforeFirst(filename, "?"), "#"))
      k == FirstMarker(cleaned)
  IN IF k # 0
     THEN StripJsExtension(
            SubSeq(cleaned, LastMarkerIndex(cleaned, MARKERS[k]) + 1, Len(cleaned)))
     ELSE IF cleaned = filename \/ cleaned = StripFileScheme(filename)
     THEN LET r == FirstRootPart(cleaned)
          IN IF r # 0 THEN StripJsExtension(SubSeq(cleaned, r, Len(cleaned)))
             ELSE IF Cardinality(SlashIndexes(cleaned)) + 1 > 2
                  THEN StripJsExtension(LastTwoParts(cleaned))
                  ELSE cleaned
     ELSE cleaned

----------------------------------------------------------------------------
(* The injected text *)

\* __source: { fileName: "<cleanedPath>", lineNumber: <lineNumber> }
SourceProperty(cleanedPath, lineNumber) ==
  <<"__source", ":", " ", "{", " ", "fileName", ":", " ", "\"">>
  \o cleanedPath
  \o <<"\"", ",", " ", "lineNumber", ":", " ", ToString(lineNumber), " ", "}">>

\* { __source: { fileName: "<cleanedPath>", lineNumber: <lineNumber> } }
sourceObj(cleanedPath, lineNumber) ==
  <<"{", " ">> \o SourceProperty(cleanedPath, lineNumber) \o <<" ", "}">>

\* , __source: { ... }     spliced before a closing brace
SpliceText(cleanedPath, lineNumber) ==
  <<",", " ">> \o SourceProperty(cleanedPath, lineNumber)

\* , { __source: { ... } }     appended before a closing parenthesis
AppendText(cleanedPath, lineNumber) ==
  <<",", " ">> \o sourceObj(cleanedPath, lineNumber)

----------------------------------------------------------------------------
(* MagicString (the magic-string package the unplugin edits through): the  *)
(* original text cut into chunks [start, end), each with the content that  *)
(* replaces it once edited and the text appended to its right (outro).     *)

MagicString(text) ==
  [chunks |-> <<[start |-> 1, end |-> Len(text) + 1, edited |-> FALSE,
                 content |-> text, outro |-> <<>>]>>,
   intro |-> <<>>,
   error |-> FALSE]

IsBoundary(ms, index) ==
  \E k \in 1..Len(ms.chunks) :
    ms.chunks[k].start = index \/ ms.chunks[k].end = index

\* _split(index): make index a chunk boundary; an edited chunk cannot be split
Split(ms, index) ==
  IF ms.error \/ IsBoundary(ms, index) THEN ms
  ELSE
    LET inside == {k \in 1..Len(ms.chunks) :
                     ms.chunks[k].start < index /\ index < ms.chunks[k].end}
    IN IF inside = {} THEN ms
       ELSE LET k == CHOOSE x \in inside : TRUE
                c == ms.chunks[k]
                n == index - c.start
            IN IF c.edited /\ Len(c.content) > 0
               THEN [ms EXCEPT !.error = TRUE]
               ELSE [ms EXCEPT !.chunks =
                       SubSeq(ms.chunks, 1, k - 1)
                       \o <<[c EXCEPT !.end = index,
                                      !.content = SubSeq(c.content, 1, n),
                                      !.outro = <<>>],
                            [c EXCEPT !.start = index,
                                      !.content = SubSeq(c.content, n + 1,
                                                         Len(c.content))]>>
                       \o SubSeq(ms.chunks, k + 1, Len(ms.chunks))]

\* s.appendLeft(index, content)
appendLeft(ms, index, content) ==
  LET sp == Split(ms, index)
      ending == {k \in 1..Len(sp.chunks) : sp.chunks[k].end = index}
  IN IF sp.error THEN sp
     ELSE IF ending = {} THEN [sp EXCEPT !.intro = @ \o content]
     ELSE LET k == CHOOSE x \in ending : TRUE
          IN [sp EXCEPT !.chunks[k].outro = @ \o content]

\* s.overwrite(start, end, content): the chunks of [start, end) are replaced,
\* with whatever had been appended inside the range
overwrite(ms, start, end, content) ==
  LET sp == Split(Split(ms, start), end)
  IN IF sp.error THEN sp
     ELSE [sp EXCEPT !.chunks =
             [k \in 1..Len(sp.chunks) |->
                LET c == sp.chunks[k]
                IN IF c.start >= start /\ c.end <= end
                   THEN [c EXCEPT !.edited = TRUE,
                                  !.content = IF c.start = start THEN content
                                              ELSE <<>>,
                                  !.outro = <<>>]
                   ELSE c]]

RECURSIVE ChunksText(_, _)
ChunksText(chunks, k) ==
  IF k > Len(chunks) THEN <<>>
  ELSE chunks[k].content \o chunks[k].outro \o ChunksText(chunks, k + 1)

\* s.toString()
toString(ms) == ms.intro \o ChunksText(ms.chunks, 1)

----------------------------------------------------------------------------
(* The unplugin's transformCode, one match at a time *)

\* the trimmed text between the parentheses
ArgsContent(text, open, close) == Trim(Slice(text, open + 1, close))

\* a match that passes both "continue" tests of the loop
Reaches(text, m) ==
  /\ ~isInsideStringOrComment(text, m.index)
  /\ findClosingParen(text, m.open + 1) # NotFound

\* a hook loop without the object branches: every non-empty call gets a new
\* argument
HookEditAppending(ms, text, cleanedPath, m) ==
  IF ~Reaches(text, m) THEN ms
  ELSE
    LET closeParenIndex == findClosingParen(text, m.open + 1)
        lineNumber == getLineNumber(text, m.index)
    IN IF ArgsContent(text, m.open, closeParenIndex) = <<>>
       THEN overwrite(ms, m.open, closeParenIndex + 1,
                      <<"(">> \o sourceObj(cleanedPath, lineNumber) \o <<")">>)
       ELSE appendLeft(ms, closeParenIndex, AppendText(cleanedPath, lineNumber))

\* the body of the hook loop for match m
HookEdit(ms, text, cleanedPath, m) ==
  IF ~Reaches(text, m) THEN ms
  ELSE
    LET closeParenIndex == findClosingParen(text, m.open + 1)
        lineNumber == getLineNumber(text, m.index)
        argsContent == ArgsContent(text, m.open, closeParenIndex)
        lastBraceIndex == LastIndexOf(text, "}", closeParenIndex)
    IN
    IF argsContent = <<>>
    THEN overwrite(ms, m.open, closeParenIndex + 1,
                   <<"(">> \o sourceObj(cleanedPath, lineNumber) \o <<")">>)
    ELSE IF Includes(argsContent, "{") /\ ~StartsWith(argsContent, "{")
    THEN IF lastBraceIndex > m.open
         THEN appendLeft(ms, lastBraceIndex, SpliceText(cleanedPath, lineNumber))
         ELSE appendLeft(ms, closeParenIndex, AppendText(cleanedPath, lineNumber))
    ELSE IF StartsWith(argsContent, "{")
    THEN IF lastBraceIndex > m.open
         THEN appendLeft(ms, lastBraceIndex, SpliceText(cleanedPath, lineNumber))
         ELSE ms
    ELSE appendLeft(ms, closeParenIndex, AppendText(cleanedPath, lineNumber))

\* the hook loop sets hasChanges for every match it reaches
HookChanges(text, m) == Reaches(text, m)

\* the body of the HOC loop: one argument, told by the absence of a comma
HocActs(text, m) ==
  /\ Reaches(text, m)
  /\ LET argsContent == ArgsContent(text, m.open, findClosingParen(text, m.open + 1))
     IN argsContent # <<>> /\ ~Includes(argsContent, ",")

HocEdit(ms, text, cleanedPath, m) ==
  IF ~HocActs(text, m) THEN ms
  ELSE appendLeft(ms, findClosingParen(text, m.open + 1),
                  AppendText(cleanedPath, getLineNumber(text, m.index)))

\* depth when the comma counting loop reaches index i: the brackets opened
\* minus the brackets closed by the characters before it
DepthBefore(argsContent, i) ==
  Cardinality({j \in 1..(i - 1) : argsContent[j] \in {"(", "{", "["}})
  - Cardinality({j \in 1..(i - 1) : argsContent[j] \in {")", "}", "]"}})

\* the comma count of the logger loop: the commas met at depth 0
commaCountOf(argsContent) ==
  Cardinality({i \in 1..Len(argsContent) :
                 argsContent[i] = "," /\ DepthBefore(argsContent, i) = 0})

\* the text the logger loop appends for a given comma count
LoggerText(commaCount, cleanedPath, lineNumber) ==
  (IF commaCount = 0 THEN <<",", " ", "undefined">> ELSE <<>>)
  \o AppendText(cleanedPath, lineNumber)

LoggerActs(text, m) ==
  /\ Reaches(text, m)
  /\ LET argsContent == ArgsContent(text, m.open, findClosingParen(text, m.open + 1))
     IN argsContent # <<>> /\ commaCountOf(argsContent) < 2

LoggerEdit(ms, text, cleanedPath, m) ==
  IF ~LoggerActs(text, m) THEN ms
  ELSE LET closeParenIndex == findClosingParen(text, m.open + 1)
       IN appendLeft(ms, closeParenIndex,
                     LoggerText(commaCountOf(ArgsContent(text, m.open, closeParenIndex)),
                                cleanedPath, getLineNumber(text, m.index)))

\* the loop body raising an exception at a call without closing parenthesis
EditOfThrowing(kind, ms, text, cleanedPath, m) ==
  IF findClosingParen(text, m.open + 1) = NotFound
  THEN [ms EXCEPT !.error = TRUE]
  ELSE CASE kind = "hook" -> HookEdit(ms, text, cleanedPath, m)
         [] kind = "hoc" -> HocEdit(ms, text, cleanedPath, m)
         [] kind = "logger" -> LoggerEdit(ms, text, cleanedPath, m)

EditOf(kind, ms, text, cleanedPath, m) ==
  CASE kind = "hook" -> HookEdit(ms, text, cleanedPath, m)
    [] kind = "hoc" -> HocEdit(ms, text, cleanedPath, m)
    [] kind = "logger" -> LoggerEdit(ms, text, cleanedPath, m)

ChangesOf(kind, text, m) ==
  CASE kind = "hook" -> HookChanges(text, m)
    [] kind = "hoc" -> HocActs(text, m)
    [] kind = "logger" -> LoggerActs(text, m)

RECURSIVE RunLoop(_, _, _, _, _, _)
\* one while loop of transformCode over its matches, from the k-th on; an
\* exception thrown by MagicString ends it
RunLoop(kind, ms, text, cleanedPath, matches, k) ==
  IF k > Len(matches) \/ ms.error THEN ms
  ELSE RunLoop(kind, EditOf(kind, ms, text, cleanedPath, matches[k]), text,
               cleanedPath, matches, k + 1)

LoopChanges(kind, text) ==
  LET matches == ExecAll(kind, text, 1)
  IN \E k \in 1..Len(matches) : ChangesOf(kind, text, matches[k])

----------------------------------------------------------------------------
(* The webpack loader's transformCode *)

\* one pass of the backward loop at index i: the new depth, inString and
\* stringChar, and the value returned when the pass returns
LastArgObjectStep(trimmed, i, v) ==
  LET char == trimmed[i]
      prevChar == At(trimmed, i - 1)
  IN
  IF ~v.inString /\ char \in QUOTES /\ prevChar # "\\"
  THEN [v EXCEPT !.inString = TRUE, !.stringChar = char]
  ELSE IF v.inString /\ char = v.stringChar /\ prevChar # "\\"
  THEN [v EXCEPT !.inString = FALSE, !.stringChar = ""]
  ELSE IF v.inString
  THEN v
  ELSE IF char = "}"
  THEN [v EXCEPT !.depth = @ + 1]
  ELSE IF char = "{"
  THEN IF v.depth - 1 = 0
       THEN LET before == Trim(SubSeq(trimmed, 1, i - 1))
            IN [v EXCEPT !.depth = @ - 1, !.returned = TRUE,
                         !.value = (before = <<>> \/ EndsWith(before, ","))]
       ELSE [v EXCEPT !.depth = @ - 1]
  ELSE v

RECURSIVE LastArgObjectFrom(_, _, _)
\* for (let i = trimmed.length - 1; i >= 0; i--) { ... }  return false
LastArgObjectFrom(trimmed, i, v) ==
  IF v.returned THEN v.value
  ELSE IF i < 1 THEN FALSE
  ELSE LastArgObjectFrom(trimmed, i - 1, LastArgObjectStep(trimmed, i, v))

isLastArgObject(argsContent) ==
  LET trimmed == Trim(argsContent)
  IN /\ Len(argsContent) # 0
     /\ EndsWith(trimmed, "}")
     /\ LastArgObjectFrom(trimmed, Len(trimmed),
                          [depth |-> 0, inString |-> FALSE, stringChar |-> "",
                           returned |-> FALSE, value |-> FALSE])

\* text with the fragment inserted before index at
InsertAt(text, at, fragment) ==
  SubSeq(text, 1, at - 1) \o fragment \o SubSeq(text, at, Len(text))

\* code.includes("function useLogger(") || code.includes("function useLifecycleLogger(")
LooksLikeLibraryDefinition(text) ==
  \E i \in 1..(Len(text) - 3) :
    /\ text[i] = "function"
    /\ text[i + 1] = " "
    /\ text[i + 2] \in {"useLogger", "useLifecycleLogger"}
    /\ text[i + 3] = "("

\* none of the substrings useLogger, ..., withLogger, "logger.", "log." occurs
NoLogrectUsage(text) ==
  \A i \in 1..Len(text) :
    text[i] \notin LOGRECT_HOOKS \cup LOGRECT_HOCS \cup LOGGER_CALLS

LoaderSkips(text) == LooksLikeLibraryDefinition(text) \/ NoLogrectUsage(text)

\* allMatches: the matches of the three patterns outside strings and comments
Collect(kind, type, text) ==
  LET found == ExecAll(kind, text, 1)
  IN SelectSeq([k \in 1..Len(found) |->
                  [type |-> type, index |-> found[k].index, open |-> found[k].open]],
               LAMBDA m : ~isInsideStringOrComment(text, m.index))

RECURSIVE SortDescending(_)
\* allMatches.sort((a, b) => b.index - a.index); no two matches share an index
SortDescending(matches) ==
  IF matches = <<>> THEN <<>>
  ELSE LET top == CHOOSE k \in 1..Len(matches) :
                    \A j \in 1..Len(matches) : matches[j].index <= matches[k].index
       IN <<matches[top]>>
          \o SortDescending(SubSeq(matches, 1, top - 1)
                            \o SubSeq(matches, top + 1, Len(matches)))

collectAllMatches(text) ==
  SortDescending(Collect("hook", "hook", text)
                 \o Collect("hoc", "hoc", text)
                 \o Collect("loaderLogger", "logger", text))

\* the body of "for (const m of allMatches)": the closing parenthesis and the
\* argument text are read from the result as edited so far, the line number
\* from the original code
LoaderStep(res, text, cleanedPath, m) ==
  LET closeParenIndex == findClosingParen(res, m.open + 1)
      lineNumber == getLineNumber(text, m.index)
      argsContent == ArgsContent(res, m.open, closeParenIndex)
      lastBraceIndex == LastIndexOf(res, "}", closeParenIndex)
  IN
  IF closeParenIndex = NotFound THEN res
  ELSE IF m.type = "hook"
  THEN IF argsContent = <<>>
       THEN SubSeq(res, 1, m.open) \o sourceObj(cleanedPath, lineNumber)
            \o SubSeq(res, closeParenIndex, Len(res))
       ELSE IF isLastArgObject(argsContent)
       THEN IF lastBraceIndex > m.open
            THEN InsertAt(res, lastBraceIndex, SpliceText(cleanedPath, lineNumber))
            ELSE res
       ELSE InsertAt(res, closeParenIndex, AppendText(cleanedPath, lineNumber))
  ELSE IF m.type = "hoc"
  THEN IF argsContent # <<>> /\ ~Includes(argsContent, ",")
       THEN InsertAt(res, closeParenIndex, AppendText(cleanedPath, lineNumber))
       ELSE res
  ELSE IF argsContent # <<>> /\ commaCountOf(argsContent) < 2
       THEN InsertAt(res, closeParenIndex,
                     LoggerText(commaCountOf(argsContent), cleanedPath, lineNumber))
       ELSE res

RECURSIVE LoaderLoop(_, _, _, _, _)
LoaderLoop(res, text, cleanedPath, matches, k) ==
  IF k > Len(matches) THEN res
  ELSE LoaderLoop(LoaderStep(res, text, cleanedPath, matches[k]), text,
                  cleanedPath, matches, k + 1)

\* the loader's transformCode(code, resourcePath) as a whole.  Its first hook
\* loop edits a result that is then reset to the code, so it has no effect.
loaderTransformCode(text, path) ==
  IF LoaderSkips(text) THEN text
  ELSE LoaderLoop(text, text, loaderCleanFilePath(path), collectAllMatches(text), 1)

\* the MagicString after the three loops of the unplugin's transformCode
EditedString(text, path) ==
  LET cleanedPath == cleanFilePath(path)
      s1 == RunLoop("hook", MagicString(text), text, cleanedPath,
                    ExecAll("hook", text, 1), 1)
      s2 == RunLoop("hoc", s1, text, cleanedPath, ExecAll("hoc", text, 1), 1)
  IN RunLoop("logger", s2, text, cleanedPath, ExecAll("logger", text, 1), 1)

null == <<"null">>

threw == <<"threw">>

\* the unplugin's transformCode(code, id) as a whole: null, or the new text
transformCode(text, path) ==
  LET ms == EditedString(text, path)
  IN IF ms.error THEN threw
     ELSE IF ~(LoopChanges("hook", text) \/ LoopChanges("hoc", text)
               \/ LoopChanges("logger", text))
     THEN null
     ELSE toString(ms)

----------------------------------------------------------------------------
(* The run: the unplugin's transformCode, then the loader's transformCode, *)
(* on the same text and path.                                              *)

\* the numeric fields' null
NullNumber == -1

\* const result = { filePath: null, fileName: null, ... fullPath: null }
EmptyLocation ==
  [filePath |-> null, fileName |-> null, lineNumber |-> NullNumber,
   columnNumber |-> NullNumber, functionName |-> null, className |-> null,
   fullPath |-> null]

\* an object without properties
NoProperties == [k \in {} |-> null]

\* a LogEntry's location fields, all undefined, and its metadata
EmptyEntry ==
  [sourcePath |-> null, lineNumber |-> NullNumber, columnNumber |-> NullNumber,
   functionName |-> null, componentName |-> null, metadata |-> NoProperties]

\* no __source in the context's metadata
NoSource == [file |-> null, line |-> NullNumber, column |-> NullNumber]

\* private context: LogContext = {}
EmptyContext == [componentName |-> null, componentId |-> null, metadata |-> NoProperties]

\* createLogEntry is called as such, from no call site of the rewriter
NoCallSite == [kind |-> "none", fileName |-> null, lineNumber |-> NullNumber]

\* the default configuration
DefaultConfig ==
  [includeSourcePath |-> "auto", environment |-> "development",
   batchLogs |-> FALSE, performance |-> TRUE, transports |-> <<>>]

\* the kinds of transport: one that returns, one that throws, and one whose
\* promise is fulfilled or rejected later
TRANSPORTS == {"returns", "throws", "fulfills", "rejects"}

\* no entry was logged and no timer was started
LoggerIdle ==
  /\ logged = 0
  /\ accepted = <<>>
  /\ logBatch = <<>>
  /\ batchTimer = NullNumber
  /\ timeouts = {}
  /\ flushing = [pc |-> "idle", batch |-> <<>>, done |-> 0, before |-> 0]
  /\ output = <<>>
  /\ transports = <<>>
  /\ runs = <<>>
  /\ microtasks = <<>>
  /\ calls = <<>>
  /\ errors = 0
  /\ performanceTimers = NoProperties
  /\ measures = <<>>
  /\ measurements = <<>>
  /\ warnings = <<>>
  /\ now = 0

\* no log call is in progress
ResolverIdle ==
  /\ config = DefaultConfig
  /\ stack = [kind |-> "none", lines |-> <<>>]
  /\ skipFrames = 0
  /\ context = EmptyContext
  /\ call = NoCallSite
  /\ frames = <<>>
  /\ userFrameIndex = 1
  /\ sourceLocation = EmptyLocation
  /\ entry = EmptyEntry
  /\ rpc = "idle"

\* state after construction, for a given input
Start(text, path) ==
  /\ code = text
  /\ id = path
  /\ pc = "hooks"
  /\ s = MagicString(text)
  /\ hasChanges = FALSE
  /\ ret = <<>>
  /\ allMatches = <<>>
  /\ result = <<>>
  /\ history = <<>>
  /\ ResolverIdle
  /\ LoggerIdle

AfterLoop(next) == IF s'.error THEN "return" ELSE next

\* while ((match = hookPattern.exec(code)) !== null) { ... }
ProcessHooks ==
  /\ pc = "hooks"
  /\ s' = RunLoop("hook", s, code, cleanFilePath(id), ExecAll("hook", code, 1), 1)
  /\ hasChanges' = (hasChanges \/ LoopChanges("hook", code))
  /\ pc' = AfterLoop("hocs")
  /\ UNCHANGED <<code, id, ret, allMatches, result, history>>
  /\ UNCHANGED resolverVars
  /\ UNCHANGED loggerVars

\* while ((match = hocPattern.exec(code)) !== null) { ... }
ProcessHOCs ==
  /\ pc = "hocs"
  /\ s' = RunLoop("hoc", s, code, cleanFilePath(id), ExecAll("hoc", code, 1), 1)
  /\ hasChanges' = (hasChanges \/ LoopChanges("hoc", code))
  /\ pc' = AfterLoop("loggers")
  /\ UNCHANGED <<code, id, ret, allMatches, result, history>>
  /\ UNCHANGED resolverVars
  /\ UNCHANGED loggerVars

\* while ((match = loggerMethodPattern.exec(code)) !== null) { ... }
ProcessLoggerMethods ==
  /\ pc = "loggers"
  /\ s' = RunLoop("logger", s, code, cleanFilePath(id), ExecAll("logger", code, 1), 1)
  /\ hasChanges' = (hasChanges \/ LoopChanges("logger", code))
  /\ pc' = AfterLoop("return")
  /\ UNCHANGED <<code, id, ret, allMatches, result, history>>
  /\ UNCHANGED resolverVars
  /\ UNCHANGED loggerVars

\* if (!hasChanges) return null; return { code: s.toString(), ... }
Return ==
  /\ pc = "return"
  /\ ret' = IF s.error THEN threw
            ELSE IF ~hasChanges THEN null ELSE toString(s)
  /\ pc' = "collect"
  /\ UNCHANGED <<code, id, s, hasChanges, allMatches, result, history>>
  /\ UNCHANGED resolverVars
  /\ UNCHANGED loggerVars

\* the loader: the two whole-file tests, then the collection of allMatches
LoaderCollect ==
  /\ pc = "collect"
  /\ allMatches' = IF LoaderSkips(code) THEN <<>> ELSE collectAllMatches(code)
  /\ result' = code
  /\ pc' = "apply"
  /\ UNCHANGED <<code, id, s, hasChanges, ret, history>>
  /\ UNCHANGED resolverVars
  /\ UNCHANGED loggerVars

\* the loader: for (const m of allMatches) { ... } return result
LoaderApply ==
  /\ pc = "apply"
  /\ result' = LoaderLoop(result, code, loaderCleanFilePath(id), allMatches, 1)
  /\ pc' = "done"
  /\ UNCHANGED <<code, id, s, hasChanges, ret, allMatches, history>>
  /\ UNCHANGED resolverVars
  /\ UNCHANGED loggerVars

Next ==
  \/ ProcessHooks
  \/ ProcessHOCs
  \/ ProcessLoggerMethods
  \/ Return
  \/ LoaderCollect
  \/ LoaderApply

----------------------------------------------------------------------------
(* Inputs *)

\* every sequence over alphabet of length at most n
Strings(alphabet, n) == UNION {[1..k -> alphabet] : k \in 0..n}

RECURSIVE Concat(_)
\* the concatenation of a sequence of sequences
Concat(seqs) == IF seqs = <<>> THEN <<>> ELSE Head(seqs) \o Concat(Tail(seqs))

\* /proj/src/App.tsx
DefaultPath == <<"/", "proj", "/", "src", "/", "App", ".tsx">>

\* one monitored identifier of each group
CalleeNames == {"useLogger", "withLogger", "logger.info"}

----------------------------------------------------------------------------
(* SpecParen: one monitored call followed by every text over parentheses,   *)
(* words and commas, up to MaxBody lexemes: balanced argument lists of     *)
(* every nesting depth, with and without text after the call, and          *)
(* unbalanced ones.                                                        *)

MaxBody == 6

ParenAlphabet == {"(", ")", "x", ","}

InitParen ==
  \E name \in CalleeNames, body \in Strings(ParenAlphabet, MaxBody) :
    Start(<<name, "(">> \o body, DefaultPath)

SpecParen == InitParen /\ [][Next]_vars

\* the number of opening minus closing parentheses in text[a..b]
ParenBalance(text, a, b) ==
  Cardinality({i \in a..b : text[i] = "("}) - Cardinality({i \in a..b : text[i] = ")"})

\* the parenthesis that closes the one at open, when no parenthesis between
\* them is part of a string or a comment
MatchingParen(text, open) ==
  LET closes == {j \in (open + 1)..Len(text) :
                   text[j] = ")" /\ ParenBalance(text, open, j) = 0}
  IN IF closes = {} THEN NotFound ELSE CHOOSE j \in closes : \A i \in closes : j <= i

\* text[a..b] holds no string, template literal, comment or regular expression
OrdinaryCode(text, a, b) ==
  \A i \in a..b : text[i] \notin QUOTES \cup {"/", "\\", "$"}

\* the calls of the three groups that the patterns find in the text
CallsIn(text) ==
  LET all == ExecAll("hook", text, 1) \o ExecAll("hoc", text, 1)
             \o ExecAll("logger", text, 1)
  IN {all[k] : k \in 1..Len(all)}

\* C2: for every call of a monitored identifier whose parenthesis has a
\* matching closing parenthesis, with ordinary (non-string) code between them,
\* findClosingParen started just after the opening parenthesis returns the
\* index of that matching parenthesis, at every nesting depth.
C2_FindsMatchingParen ==
  \A m \in CallsIn(code) :
    LET j == MatchingParen(code, m.open)
    IN (j # NotFound /\ OrdinaryCode(code, m.open, j))
       => findClosingParen(code, m.open + 1) = j

\* a call whose arguments nest parentheses two deep and that is followed by
\* another parenthesis pair, rewritten at its own closing parenthesis
C2_Witness ==
  /\ pc = "done"
  /\ \E m \in CallsIn(code) :
       LET j == MatchingParen(code, m.open)
       IN /\ j # NotFound /\ j < Len(code)
          /\ \E i \in m.open..j : ParenBalance(code, m.open, i) = 3
          /\ Includes(SubSeq(code, j + 1, Len(code)), ")")
          /\ findClosingParen(code, m.open + 1) = j
          /\ ret # null

----------------------------------------------------------------------------
(* SpecLex: one monitored call inside a quoted string, a template literal, *)
(* a line comment or a block comment, after every text of at most MaxPre   *)
(* double and single quotes, backslashes, slashes, stars and newlines.     *)

MaxPre == 4

LexAlphabet == {"\"", "'", "\\", "/", "*", "\n"}

\* the opening and the closing text of each kind of region
Regions ==
  { <<<<"\"">>, <<"\"">>>>, <<<<"'">>, <<"'">>>>, <<<<BQ>>, <<BQ>>>>,
    <<<<"/", "/">>, <<"\n">>>>, <<<<"/", "*">>, <<"*", "/">>>> }

InitLex ==
  \E name \in CalleeNames, pre \in Strings(LexAlphabet, MaxPre),
     region \in Regions :
    Start(pre \o region[1] \o <<name, "(", ")">> \o region[2], DefaultPath)

SpecLex == InitLex /\ [][Next]_vars

STRING_MODES == {"dq", "sq", "tpl"}

\* One step of a scanner of ECMAScript source text in lexical state v.mode
\* at index v.i: "code", a double-quoted or single-quoted string, a template
\* literal, a line or a block comment, or "bad" for text no program
\* contains.  A backslash in a string or template escapes the character
\* after it.  The text holds no regular expression literal, no JSX text and
\* no template interpolation.
LexStep(text, v) ==
  LET c == text[v.i]
      n == At(text, v.i + 1)
      to(k, mode) == [i |-> v.i + k, mode |-> mode]
  IN CASE v.mode = "code" ->
            IF c = "/" /\ n = "/" THEN to(2, "line")
            ELSE IF c = "/" /\ n = "*" THEN to(2, "block")
            ELSE IF c = "\"" THEN to(1, "dq")
            ELSE IF c = "'" THEN to(1, "sq")
            ELSE IF c = BQ THEN to(1, "tpl")
            ELSE IF c = "\\" THEN to(1, "bad")
            ELSE to(1, "code")
       [] v.mode \in STRING_MODES ->
            IF c = "\\" THEN to(2, v.mode)
            ELSE IF c = "\n" /\ v.mode # "tpl" THEN to(1, "bad")
            ELSE IF \/ v.mode = "dq" /\ c = "\""
                    \/ v.mode = "sq" /\ c = "'"
                    \/ v.mode = "tpl" /\ c = BQ
                 THEN to(1, "code")
            ELSE to(1, v.mode)
       [] v.mode = "line" -> to(1, IF c = "\n" THEN "code" ELSE "line")
       [] v.mode = "block" ->
            IF c = "*" /\ n = "/" THEN to(2, "code") ELSE to(1, "block")

RECURSIVE LexRun(_, _, _)
LexRun(text, v, stop) ==
  IF v.mode = "bad" \/ v.i >= stop THEN v.mode
  ELSE LexRun(text, LexStep(text, v), stop)

\* the lexical state just before index stop, the text being read from index
\* i in state mode
LexMode(text, i, mode, stop) == LexRun(text, [i |-> i, mode |-> mode], stop)

ModeAt(text, i) == LexMode(text, 1, "code", i)

\* every string, template and block comment of the text is closed
WellFormed(text) == ModeAt(text, Len(text) + 1) \in {"code", "line"}

\* the index lies in a string, a template literal or a comment
InRegion(text, i) == ModeAt(text, i) \in STRING_MODES \cup {"line", "block"}

\* the quotes that close a string or a template literal
ClosingQuotes(text) ==
  {i \in 1..Len(text) :
     ModeAt(text, i) \in STRING_MODES /\ ModeAt(text, i + 1) = "code"}

\* no string or template before index i ends with a backslash character
NoBackslashBeforeClose(text, i) ==
  \A q \in ClosingQuotes(text) : q < i => text[q - 1] # "\\"

\* the only call of the text was left as it was by both transforms
OnlyCallUntouched ==
  (pc = "done" /\ Cardinality(CallsIn(code)) = 1) => (ret = null /\ result = code)

\* C1 (amended): in a well-formed buffer, a monitored identifier inside a
\* string, a template literal, a line comment or a block comment is classified
\* as inside by isInsideStringOrComment and is not rewritten, provided that no
\* string or template literal before it ends with a backslash character.
C1_InsideRegionSkipped ==
  \A m \in CallsIn(code) :
    (WellFormed(code) /\ InRegion(code, m.index)
       /\ NoBackslashBeforeClose(code, m.index))
    => (isInsideStringOrComment(code, m.index) /\ OnlyCallUntouched)

\* C1 as stated: the same for whatever text precedes the identifier
C1_AnyPrecedingText ==
  \A m \in CallsIn(code) :
    (WellFormed(code) /\ InRegion(code, m.index))
    => (isInsideStringOrComment(code, m.index) /\ OnlyCallUntouched)

\* a call in a region that follows a string holding an escaped quote, skipped
C1_Witness ==
  /\ pc = "done"
  /\ \E m \in CallsIn(code) :
       /\ WellFormed(code) /\ InRegion(code, m.index)
       /\ NoBackslashBeforeClose(code, m.index)
       /\ \E q \in ClosingQuotes(code) : q < m.index /\ Includes(SubSeq(code, 1, q), "\\")
       /\ isInsideStringOrComment(code, m.index)
  /\ ret = null /\ result = code

----------------------------------------------------------------------------
(* Spec: one call of a monitored identifier with at most MaxArgs arguments, *)
(* each of them one of ArgForms, separated by a comma and a space.          *)

MaxArgs == 2

ArgForms ==
  { <<"x">>,
    <<"\"", "a", "\"">>,
    <<"{", "}">>,
    <<"{", " ", "x", " ", "}">>,
    <<"{", "x", ",", "}">>,
    <<"f", "(", "{", "}", ")">>,
    <<"(", ")", " ", "=", ">", " ", "{", "}">>,
    <<"\"", "}", "\"">>,
    <<"\"", "a", ",", "b", "\"">>,
    <<"f", "(", "a", ",", " ", "b", ")">>,
    <<"{", " ", "/", "*", ")", "*", "/", " ", "}">>,
    <<"[", "x", ",", " ", "x", "]">>,
    <<"useTimer", "(", ")">> }

RECURSIVE Join(_)
\* Array.prototype.join(", ")
Join(parts) ==
  IF parts = <<>> THEN <<>>
  ELSE IF Len(parts) = 1 THEN parts[1]
  ELSE parts[1] \o <<",", " ">> \o Join(Tail(parts))

InitCall ==
  \E name \in CalleeNames, args \in Strings(ArgForms, MaxArgs) :
    Start(<<name, "(">> \o Join(args) \o <<")">>, DefaultPath)

Spec == InitCall /\ [][Next]_vars

\* the greatest element of a non-empty set of numbers
MaxOf(S) == CHOOSE x \in S : \A y \in S : y <= x

\* the lexical state at index i of the arguments that follow the opening
\* parenthesis at open
ArgMode(text, open, i) == LexMode(text, open + 1, "code", i)

OPENERS == {"(", "[", "{"}

CLOSERS == {")", "]", "}"}

\* the brackets open at index i of those arguments, strings and comments
\* left out
ArgDepth(text, open, i) ==
  LET inCode(S) == {j \in (open + 1)..(i - 1) :
                      text[j] \in S /\ ArgMode(text, open, j) = "code"}
  IN Cardinality(inCode(OPENERS)) - Cardinality(inCode(CLOSERS))

\* the parenthesis that closes the call opened at open
TrueClose(text, open) ==
  LET closes == {j \in (open + 1)..Len(text) :
                   /\ text[j] = ")"
                   /\ ArgMode(text, open, j) = "code"
                   /\ ArgDepth(text, open, j) = 0}
  IN IF closes = {} THEN NotFound ELSE CHOOSE j \in closes : \A i \in closes : j <= i

\* the commas that separate the arguments of the call
TopLevelCommas(text, open) ==
  {i \in (open + 1)..(TrueClose(text, open) - 1) :
     /\ text[i] = ","
     /\ ArgMode(text, open, i) = "code"
     /\ ArgDepth(text, open, i) = 0}

\* the brace that opens the object or block closed at index i
OpeningBrace(text, open, i) ==
  MaxOf({j \in (open + 1)..(i - 1) :
           /\ text[j] = "{"
           /\ ArgMode(text, open, j) = "code"
           /\ ArgDepth(text, open, j) = 0})

\* the closing braces of the object literals that are arguments of the call:
\* braces of the call's own level whose opening brace starts an argument
DirectObjectCloses(text, open) ==
  {i \in (open + 1)..(TrueClose(text, open) - 1) :
     /\ text[i] = "}"
     /\ ArgMode(text, open, i) = "code"
     /\ ArgDepth(text, open, i) = 1
     /\ LET before == SkipWSBack(text, OpeningBrace(text, open, i) - 1)
        IN before = open \/ text[before] = ","}

\* every other closing brace between the parentheses of the call
OtherBraces(text, open) ==
  {i \in (open + 1)..(TrueClose(text, open) - 1) : text[i] = "}"}
  \ DirectObjectCloses(text, open)

\* the text is one call of a hook and holds no other monitored call
OneHookCall ==
  /\ code[1] \in LOGRECT_HOOKS
  /\ Cardinality(CallsIn(code)) = 1
  /\ TrueClose(code, 2) = Len(code)

\* C3: for a hook call whose arguments contain a brace, the __source property
\* goes immediately before the last closing brace of an object literal that
\* is an argument of the call, and never before a brace of a nested call's
\* argument, of a function body or of a string.
C3_SpliceBeforeTopLevelBrace ==
  (pc = "done" /\ OneHookCall /\ Includes(code, "{"))
  => LET braces == DirectObjectCloses(code, 2)
         splice == SpliceText(cleanFilePath(id), 1)
     IN /\ braces # {} => ret = InsertAt(code, MaxOf(braces), splice)
        /\ \A j \in OtherBraces(code, 2) : ret # InsertAt(code, j, splice)

\* no property list or argument list of the text has an empty element: no
\* comma directly after an opening brace or after another comma
NoEmptyElement(text) ==
  \A i \in 1..Len(text) :
    text[i] \in {"{", ","} => At(text, SkipWS(text, i + 1)) # ","

\* C4: when __source is spliced into the object literal that is the last
\* argument of a hook call, the object keeps its properties separated by
\* exactly one comma with no empty element, for the empty object and for an
\* object with a trailing comma as well; in the unplugin and in the loader.
C4_SpliceKeepsObjectWellFormed ==
  (/\ pc = "done" /\ OneHookCall /\ NoEmptyElement(code)
   /\ DirectObjectCloses(code, 2) # {}
   /\ SkipWSBack(code, Len(code) - 1) = MaxOf(DirectObjectCloses(code, 2))
   /\ ret = InsertAt(code, MaxOf(DirectObjectCloses(code, 2)),
                     SpliceText(cleanFilePath(id), 1)))
  => (NoEmptyElement(ret) /\ NoEmptyElement(result))

\* the text is one call of name class names and holds no other monitored call
OneCallOf(names) ==
  /\ code[1] \in names
  /\ Cardinality(CallsIn(code)) = 1
  /\ TrueClose(code, 2) = Len(code)

\* C6: a logger-method call with arguments and fewer than 2 top-level commas
\* ends up with exactly three arguments, the last one the source object, an
\* undefined placeholder standing in for a missing second one; with 2 or
\* more top-level commas, or with no argument, it is left unchanged.
C6_LoggerCallGetsThreeArguments ==
  (pc = "done" /\ OneCallOf(LOGGER_CALLS))
  => LET commas == Cardinality(TopLevelCommas(code, 2))
         source == AppendText(cleanFilePath(id), 1)
     IN IF Trim(SubSeq(code, 3, Len(code) - 1)) = <<>> \/ commas >= 2
        THEN ret = null
        ELSE IF commas = 1
        THEN ret = InsertAt(code, Len(code), source)
        ELSE ret = InsertAt(code, Len(code), <<",", " ", "undefined">> \o source)

\* C7: a wrapping call is given the source object as a new last argument
\* exactly when it has one argument, whatever commas that argument holds in
\* nested parentheses, brackets or braces; otherwise it is left untouched.
C7_HocAppendedWhenOneArgument ==
  (pc = "done" /\ OneCallOf(LOGRECT_HOCS))
  => IF Trim(SubSeq(code, 3, Len(code) - 1)) # <<>> /\ TopLevelCommas(code, 2) = {}
     THEN ret = InsertAt(code, Len(code), AppendText(cleanFilePath(id), 1))
     ELSE ret = null

\* C9: transformCode returns a result other than null if and only if the
\* text it returns differs from the text it was given.
C9_ChangeReportedIffTextDiffers ==
  (pc = "done" /\ ret # threw) => (ret # null <=> toString(s) # code)

RECURSIVE SubsequenceFrom(_, _, _, _)
SubsequenceFrom(a, b, i, j) ==
  IF i > Len(a) \/ j > Len(b) THEN i > Len(a)
  ELSE SubsequenceFrom(a, b, IF a[i] = b[j] THEN i + 1 ELSE i, j + 1)

\* the lexemes of a occur in b in the same order
IsSubsequence(a, b) == SubsequenceFrom(a, b, 1, 1)

NonWS(text) == SelectSeq(text, LAMBDA c : c \notin WS)

\* the calls of monitored identifiers inside the arguments of the first call
NestedCalls(text) == {m \in CallsIn(text) : m.index > 2}

\* the text with the monitored identifier at index i replaced by a name that
\* is not monitored
Unmonitored(text, i) == [text EXCEPT ![i] = "g"]

\* out, the output for Unmonitored(text, i), with the name put back and the
\* empty argument list after it given its source object
WithNestedEdit(out, name, cleanedPath) ==
  LET i == CHOOSE k \in 1..Len(out) : out[k] = "g"
  IN SubSeq(out, 1, i - 1) \o <<name, "(">> \o sourceObj(cleanedPath, 1)
     \o SubSeq(out, i + 2, Len(out))

\* C10: the output keeps every character of the original in order, every
\* inserted fragment lies between the parentheses of the call, and the edit
\* of a call is the same whether or not a call nested in its arguments is
\* rewritten too; in the loader and in the unplugin.
C10_EditsDoNotInterfere ==
  (pc = "done" /\ TrueClose(code, 2) = Len(code) /\ ret \notin {null, threw})
  => /\ IsSubsequence(NonWS(code), NonWS(result))
     /\ IsSubsequence(NonWS(code), NonWS(ret))
     /\ SubSeq(result, 1, 2) = SubSeq(code, 1, 2) /\ result[Len(result)] = ")"
     /\ SubSeq(ret, 1, 2) = SubSeq(code, 1, 2) /\ ret[Len(ret)] = ")"
     /\ \A m \in NestedCalls(code) :
          (Cardinality(NestedCalls(code)) = 1 /\ code[m.index + 2] = ")")
          => LET alone == Unmonitored(code, m.index)
                 out == transformCode(alone, id)
             IN /\ result = WithNestedEdit(loaderTransformCode(alone, id),
                                           code[m.index], loaderCleanFilePath(id))
                /\ ret = WithNestedEdit(IF out = null THEN alone ELSE out,
                                        code[m.index], cleanFilePath(id))

----------------------------------------------------------------------------
(* SpecEmpty: a hook call with an empty or whitespace-only argument list,  *)
(* after at most MaxLines line breaks, in a file of each path of Paths.    *)

MaxLines == 4

Paths ==
  { <<"app", "/", "page", ".tsx">>,
    <<"/", "proj", "/", "app", "/", "page", ".tsx">>,
    <<"/", "proj", "/", "src", "/", "App", ".jsx">>,
    <<"/", "proj", "/", "lib", "/", "util", ".ts">>,
    <<"/", "proj", "/", "views", "/", "Home", ".vue">> }

EmptyArgs == {<<>>, <<" ">>, <<"\n", " ">>}

InitEmpty ==
  \E name \in {"useLogger", "useTimer", "useWhyDidYouRender"},
     lines \in 0..MaxLines, inside \in EmptyArgs, path \in Paths :
    Start([i \in 1..lines |-> "\n"] \o <<name, "(">> \o inside \o <<")">>, path)

SpecEmpty == InitEmpty /\ [][Next]_vars

\* the index of the first hook name of the text
FirstHook(text) ==
  CHOOSE i \in 1..Len(text) :
    text[i] \in LOGRECT_HOOKS /\ \A j \in 1..(i - 1) : text[j] \notin LOGRECT_HOOKS

\* the text with the argument list of its hook call replaced by the source
\* object for file name fileName and the line of the call
EmptyArgsReplaced(text, fileName) ==
  LET h == FirstHook(text)
      N == Cardinality({i \in 1..(h - 1) : text[i] = "\n"}) + 1
  IN SubSeq(text, 1, h + 1) \o sourceObj(fileName, N) \o <<")">>

\* C5: a hook call with an empty or whitespace-only argument list at line N
\* of the file with path P becomes name({ __source: { fileName: clean(P),
\* lineNumber: N } }); useLogger() on line 5 of app/page.tsx becomes
\* useLogger({ __source: { fileName: "app/page", lineNumber: 5 } }).
C5_EmptyArgsReplaced ==
  (pc = "done" /\ Trim(SubSeq(code, FirstHook(code) + 2, Len(code) - 1)) = <<>>)
  => /\ ret = EmptyArgsReplaced(code, cleanFilePath(id))
     /\ result = EmptyArgsReplaced(code, loaderCleanFilePath(id))
     /\ (/\ code = <<"\n", "\n", "\n", "\n", "useLogger", "(", ")">>
         /\ id = <<"app", "/", "page", ".tsx">>)
        => /\ ret = EmptyArgsReplaced(code, <<"app", "/", "page">>)
           /\ result = EmptyArgsReplaced(code, <<"app", "/", "page">>)

----------------------------------------------------------------------------
(* SpecFile: a file of at most MaxCalls lines, each of them a balanced     *)
(* call, a call without its closing parenthesis, or other code.            *)

MaxCalls == 3

LineForms ==
  { <<"useLogger", "(", ")">>,
    <<"withLogger", "(", "A", ")">>,
    <<"logger.info", "(", "\"", "a", "\"", ")">>,
    <<"useTimer", "(", "{", " ", "x", " ", "}", ")">>,
    <<"useLogger", "(">>,
    <<"logger.info", "(", "(", "x", ")">>,
    <<"withLogger", "(", "A">>,
    <<"useLogger", "(", "useTimer", "(", ")">>,
    <<"x">> }

RECURSIVE JoinLines(_)
\* Array.prototype.join("\n")
JoinLines(parts) ==
  IF parts = <<>> THEN <<>>
  ELSE IF Len(parts) = 1 THEN parts[1]
  ELSE parts[1] \o <<"\n">> \o JoinLines(Tail(parts))

InitFile ==
  \E lines \in Strings(LineForms, MaxCalls) : Start(JoinLines(lines), DefaultPath)

SpecFile == InitFile /\ [][Next]_vars

\* the calls for which findClosingParen returns -1
UnbalancedCalls(text) ==
  {m \in CallsIn(text) : findClosingParen(text, m.open + 1) = NotFound}

\* the output for Unmonitored(text, i) with the name put back
WithName(out, name) ==
  IF out = null THEN null
  ELSE [k \in 1..Len(out) |-> IF out[k] = "g" THEN name ELSE out[k]]

\* C8: a call without a matching closing parenthesis is only skipped: no
\* exception leaves transformCode, and the output is the one for the same
\* file with that call not monitored, so every other call, before or after
\* it, is rewritten as if the unbalanced call were absent; in the unplugin
\* and in the loader.
C8_UnbalancedCallOnlySkipped ==
  \A m \in UnbalancedCalls(code) :
    /\ ~s.error
    /\ ret # threw
    /\ pc = "done"
       => LET alone == Unmonitored(code, m.index)
          IN /\ ret = WithName(transformCode(alone, id), code[m.index])
             /\ result = WithName(loaderTransformCode(alone, id), code[m.index])

\* a file with an unbalanced call between two balanced calls, both rewritten
C8_Witness ==
  /\ pc = "done"
  /\ \E m \in UnbalancedCalls(code), a \in CallsIn(code), b \in CallsIn(code) :
       /\ a.index < m.index /\ m.index < b.index
       /\ a \notin UnbalancedCalls(code) /\ b \notin UnbalancedCalls(code)
  /\ ret \notin {null, threw}
  /\ Cardinality({i \in 1..Len(ret) : ret[i] = "__source"}) = 2
  /\ Cardinality({i \in 1..Len(result) : result[i] = "__source"}) = 2

----------------------------------------------------------------------------
(* A build session: the plugin object is constructed once and its          *)
(* transform hook is then invoked for one file after another.  Each        *)
(* invocation runs the hook's whole-file tests and, unless they return     *)
(* null, transformCode; the loader's transformCode runs on the same file.  *)

\* the invocations of one session
MaxRuns == 2

\* function h() {} followed, on the next line, by a call of useLogger
DefinitionFile(h) ==
  <<"function", " ", h, "(", ")", " ", "{", "}", "\n", "useLogger", "(", ")">>

\* files with calls that are rewritten, calls that are not, and no call
CallFiles ==
  { <<"useLogger", "(", ")">>,
    <<"useLogger", "(", "x", ")">>,
    <<"useTimer", "(", "{", " ", "x", " ", "}", ")">>,
    <<"withLogger", "(", "A", ")">>,
    <<"withLogger", "(", "A", ",", " ", "x", ")">>,
    <<"logger.info", "(", "x", ")">>,
    <<"x", "(", ")">> }

SessionFiles == {DefinitionFile(h) : h \in LOGRECT_HOOKS} \cup CallFiles

\* the state after the plugin's construction: no file has been transformed
InitIdle ==
  /\ code = <<>>
  /\ id = <<>>
  /\ pc = "idle"
  /\ s = MagicString(<<>>)
  /\ hasChanges = FALSE
  /\ ret = <<>>
  /\ allMatches = <<>>
  /\ result = <<>>
  /\ history = <<>>
  /\ ResolverIdle
  /\ LoggerIdle

\* the transform hook's whole-file tests on the text, before transformCode
TransformSkips(text) == LooksLikeLibraryDefinition(text) \/ NoLogrectUsage(text)

\* let hasChanges = false, at the entry of transformCode
StaleChanges == hasChanges

FreshChanges == FALSE

\* transform(code, id) as a whole, for a path that passes the path filters
transform(text, path) ==
  IF TransformSkips(text) THEN null ELSE transformCode(text, path)

\* one finished invocation
Finished == [code |-> code, id |-> id, ret |-> ret, result |-> result]

\* the hook is invoked for the next file: its tests, then transformCode's
\* entry (const s = new MagicString(code); let hasChanges = false)
Transform ==
  /\ \/ pc = "idle"
     \/ pc = "done" /\ Len(history) + 1 < MaxRuns
  /\ history' = IF pc = "done" THEN Append(history, Finished) ELSE history
  /\ \E text \in SessionFiles :
       /\ code' = text
       /\ id' = DefaultPath
       /\ s' = MagicString(text)
       /\ hasChanges' = FreshChanges
       /\ ret' = IF TransformSkips(text) THEN null ELSE <<>>
       /\ pc' = IF TransformSkips(text) THEN "collect" ELSE "hooks"
  /\ allMatches' = <<>>
  /\ result' = <<>>
  /\ UNCHANGED resolverVars
  /\ UNCHANGED loggerVars

NextSession ==
  \/ Transform
  \/ ProcessHooks
  \/ ProcessHOCs
  \/ ProcessLoggerMethods
  \/ Return
  \/ LoaderCollect
  \/ LoaderApply

SpecSession == InitIdle /\ [][NextSession]_vars

\* C11: the transform is deterministic and keeps nothing between
\* invocations: what an invocation returns, in the unplugin and in the
\* loader, is the value of the transform on its own text and path, whatever
\* files the session transformed before, and two invocations on the same
\* text and path return the same.
C11_NothingKeptBetweenInvocations ==
  pc = "done" =>
    /\ ret = transform(code, id)
    /\ result = loaderTransformCode(code, id)
    /\ \A k \in 1..Len(history) :
         history[k].code = code /\ history[k].id = id
           => ret = history[k].ret /\ result = history[k].result

\* a rewritten file is transformed a second time, after itself or after
\* another rewritten file
C11_Witness ==
  /\ pc = "done"
  /\ Len(history) = 1
  /\ history[1].ret \notin {null, threw}
  /\ ret \notin {null, threw}
  /\ \E h \in {history[1].code, <<"useLogger", "(", ")">>} : code = h

\* "function h(" for a monitored hook name h occurs in the text
DefinesHook(text, h) ==
  \E i \in 1..(Len(text) - 3) :
    /\ text[i] = "function"
    /\ text[i + 1] = " "
    /\ text[i + 2] = h
    /\ text[i + 3] = "("

\* C14: for each of the eleven monitored hook names h, a file whose text
\* contains "function h(" is skipped as a whole: the unplugin returns null
\* and the loader returns the text unchanged.
C14_DefinitionFileSkipped ==
  \A h \in LOGRECT_HOOKS :
    pc = "done" /\ DefinesHook(code, h) => ret = null /\ result = code

\* the text the build goes on with after the unplugin: null keeps the input
TextAfter(text, out) == IF out = null THEN text ELSE out

\* C13: the unplugin and the loader implement one semantics: on a file that
\* neither of them skips they produce the same rewritten text.
C13_VariantsProduceSameText ==
  pc = "done" /\ ret # threw /\ ~TransformSkips(code)
    => TextAfter(code, ret) = result

----------------------------------------------------------------------------
(* The transform run again on its own output, as when two builds or two    *)
(* registrations of the plugin follow one another.                         *)

\* the passes over one file
MaxPasses == 2

InitOneCall ==
  \E name \in CalleeNames, args \in Strings(ArgForms, 1) :
    Start(<<name, "(">> \o Join(args) \o <<")">>, DefaultPath)

\* transformCode is entered with the text a finished pass produced
Rerun ==
  /\ pc = "done"
  /\ Len(history) + 1 < MaxPasses
  /\ history' = Append(history, Finished)
  /\ \E text \in {TextAfter(code, ret), result} \ {threw} :
       /\ code' = text
       /\ s' = MagicString(text)
  /\ pc' = "hooks"
  /\ hasChanges' = FALSE
  /\ ret' = <<>>
  /\ allMatches' = <<>>
  /\ result' = <<>>
  /\ UNCHANGED id
  /\ UNCHANGED resolverVars
  /\ UNCHANGED loggerVars

NextRerun ==
  \/ Rerun
  \/ ProcessHooks
  \/ ProcessHOCs
  \/ ProcessLoggerMethods
  \/ Return
  \/ LoaderCollect
  \/ LoaderApply

SpecRerun == InitOneCall /\ [][NextRerun]_vars

\* the closing brace of the object that holds the last __source property
LastSourceObjectClose(text) ==
  LET p == MaxOf({i \in 1..Len(text) : text[i] = "__source"})
      e == CHOOSE i \in (p + 1)..Len(text) :
             text[i] = "}" /\ \A j \in (p + 1)..(i - 1) : text[j] # "}"
  IN SkipWS(text, e + 1)

\* one more __source property in the object that already holds one
SplicedAgain(text, cleanedPath) ==
  InsertAt(text, LastSourceObjectClose(text), SpliceText(cleanedPath, 1))

\* the pass before this one was on one hook call and changed its text
RewrittenHookCall(prev) ==
  /\ prev.code[1] \in LOGRECT_HOOKS
  /\ Cardinality(CallsIn(prev.code)) = 1
  /\ TrueClose(prev.code, 2) = Len(prev.code)

\* C12: a second pass over the output of a pass that rewrote a hook call is
\* not a no-op: the call now has an object-literal argument, and the second
\* pass splices one more __source property into the object that holds the
\* first one instead of appending an argument; in the unplugin and in the
\* loader, each on its own output.
C12_SecondPassSplicesAgain ==
  (pc = "done" /\ history # <<>>) =>
    LET prev == history[Len(history)]
    IN RewrittenHookCall(prev) =>
         /\ (prev.ret \notin {null, threw, prev.code} /\ code = prev.ret)
              => ret = SplicedAgain(code, cleanFilePath(id))
         /\ (prev.result # prev.code /\ code = prev.result)
              => result = SplicedAgain(code, loaderCleanFilePath(id))

\* useLogger() and useLogger(x) after two passes of the unplugin
C12_Witness ==
  /\ pc = "done"
  /\ Len(history) = 1
  /\ history[1].code \in {<<"useLogger", "(", ")">>, <<"useLogger", "(", "x", ")">>}
  /\ code = history[1].ret
  /\ Cardinality({i \in 1..Len(ret) : ret[i] = "__source"}) = 2
  /\ Len(ret) = Len(code) + Len(SpliceText(cleanFilePath(id), 1))

----------------------------------------------------------------------------
(* The runtime stack-location resolver.  A stack line is a sequence of     *)
(* lexemes: a space, "(", ")", ":" and "@" are one lexeme each, a run of   *)
(* digits is one lexeme, and so is the word "at" and every other word or   *)
(* path part.  A captured group that did not take part in the match        *)
(* (undefined) is the empty sequence; the result null of parseStackFrame   *)
(* is the empty sequence of frames, a frame is a sequence of one frame.    *)

\* runs of digits
DIGITS == {"1", "4", "7", "12"}

DigitValue(t) == CASE t = "1" -> 1 [] t = "4" -> 4 [] t = "7" -> 7 [] t = "12" -> 12

\* the power of ten a run of digits shifts the digits before it by
DigitShift(t) == IF t = "12" THEN 100 ELSE 10

\* \d+
IsDigits(tokens) ==
  tokens # <<>> /\ \A k \in 1..Len(tokens) : tokens[k] \in DIGITS

RECURSIVE parseInt(_)
\* parseInt(digits, 10)
parseInt(tokens) ==
  IF Len(tokens) = 1 THEN DigitValue(tokens[1])
  ELSE parseInt(SubSeq(tokens, 1, Len(tokens) - 1)) * DigitShift(tokens[Len(tokens)])
       + DigitValue(tokens[Len(tokens)])

\* :(\d+):(\d+) ending at index last: the index of its first colon
LocationTail(line, last) ==
  LET c2 == LastIndexOf(line, ":", last)
      c1 == IF c2 = NotFound THEN NotFound ELSE LastIndexOf(line, ":", c2 - 1)
  IN IF /\ c2 # NotFound
        /\ c1 # NotFound
        /\ IsDigits(SubSeq(line, c1 + 1, c2 - 1))
        /\ IsDigits(SubSeq(line, c2 + 1, last))
     THEN c1
     ELSE NotFound

\* the groups of (.+?):(\d+):(\d+) matched on the lexemes from..last
LocationGroups(line, from, last) ==
  LET c1 == LocationTail(line, last)
      c2 == LastIndexOf(line, ":", last)
  IN IF c1 # NotFound /\ c1 > from
     THEN <<[filePath |-> SubSeq(line, from, c1 - 1),
             line |-> SubSeq(line, c1 + 1, c2 - 1),
             column |-> SubSeq(line, c2 + 1, last)]>>
     ELSE <<>>

\* (?:(.+?):(\d+):(\d+)|([^)]+)) on the lexemes from..last; the fifth group
\* is not read by parseStackFrame
ChromeLocation(line, from, last) ==
  IF LocationGroups(line, from, last) # <<>>
  THEN LocationGroups(line, from, last)
  ELSE IF from <= last /\ \A k \in from..last : line[k] # ")"
  THEN <<[filePath |-> <<>>, line |-> <<>>, column |-> <<>>]>>
  ELSE <<>>

\* (.+?)\s+\( with the name ending at index e: the index after the "("
AfterName(line, e) ==
  LET m == SkipWS(line, e + 1)
  IN IF m > e + 1 /\ At(line, m) = "(" THEN m + 1 ELSE NotFound

\* (?:(.+?)\s+\()?(?:(.+?):(\d+):(\d+)|([^)]+))\)?$ from index start on: the
\* shortest name first, then the match without a name
ChromeFrom(line, start) ==
  LET last == IF EndsWith(line, ")") THEN Len(line) - 1 ELSE Len(line)
      named == {e \in start..Len(line) :
                  /\ AfterName(line, e) # NotFound
                  /\ ChromeLocation(line, AfterName(line, e), last) # <<>>}
      e == CHOOSE x \in named : \A y \in named : x <= y
      location == IF named # {} THEN ChromeLocation(line, AfterName(line, e), last)
                  ELSE ChromeLocation(line, start, last)
  IN IF location = <<>> THEN <<>>
     ELSE <<[functionName |-> IF named # {} THEN SubSeq(line, start, e) ELSE <<>>,
             filePath |-> location[1].filePath,
             line |-> location[1].line,
             column |-> location[1].column]>>

\* frameLine.match(/^\s*at\s+(?:(.+?)\s+\()?(?:(.+?):(\d+):(\d+)|([^)]+))\)?$/)
chromeMatch(frameLine) ==
  LET at == SkipWS(frameLine, 1)
      starts == {k \in (at + 2)..SkipWS(frameLine, at + 1) :
                   ChromeFrom(frameLine, k) # <<>>}
  IN IF At(frameLine, at) # "at" \/ starts = {} THEN <<>>
     ELSE ChromeFrom(frameLine, MaxOf(starts))

\* frameLine.match(/^(.*)@(.+?):(\d+):(\d+)$/)
firefoxMatch(frameLine) ==
  LET c1 == LocationTail(frameLine, Len(frameLine))
      c2 == LastIndexOf(frameLine, ":", Len(frameLine))
      ats == {k \in 1..(c1 - 2) : frameLine[k] = "@"}
  IN IF c1 = NotFound \/ ats = {} THEN <<>>
     ELSE <<[functionName |-> SubSeq(frameLine, 1, MaxOf(ats) - 1),
             filePath |-> SubSeq(frameLine, MaxOf(ats) + 1, c1 - 1),
             line |-> SubSeq(frameLine, c1 + 1, c2 - 1),
             column |-> SubSeq(frameLine, c2 + 1, Len(frameLine))]>>

\* frameLine.match(/^(.+?):(\d+):(\d+)$/)
simpleMatch(frameLine) == LocationGroups(frameLine, 1, Len(frameLine))

\* filePath.split(/[/\\]/) last part, up to the first "?" and the first "#"
extractFileName(filePath) ==
  LET seps == {k \in 1..Len(filePath) : filePath[k] \in {"/", "\\"}}
      fileName == SubSeq(filePath, IF seps = {} THEN 1 ELSE MaxOf(seps) + 1,
                         Len(filePath))
  IN BeforeFirst(BeforeFirst(fileName, "?"), "#")

\* value || null for a string
OrNull(tokens) == IF tokens = <<>> THEN null ELSE tokens

\* the StackFrame built from the groups of a match
FrameOf(functionName, groups) ==
  [functionName |-> OrNull(functionName),
   fileName |-> IF groups.filePath # <<>> THEN extractFileName(groups.filePath)
                ELSE null,
   filePath |-> OrNull(groups.filePath),
   lineNumber |-> IF groups.line # <<>> THEN parseInt(groups.line) ELSE NullNumber,
   columnNumber |-> IF groups.column # <<>> THEN parseInt(groups.column)
                    ELSE NullNumber]

\* parseStackFrame(frameLine, extractFileName): no frame, or one
\* the frame of the first of the three matches that is one
FirstMatch(chrome, firefox, simple) ==
  IF chrome # <<>> THEN <<FrameOf(chrome[1].functionName, chrome[1])>>
  ELSE IF firefox # <<>> THEN <<FrameOf(firefox[1].functionName, firefox[1])>>
  ELSE IF simple # <<>> THEN <<FrameOf(<<>>, simple[1])>>
  ELSE <<>>

parseStackFrame(frameLine) ==
  FirstMatch(chromeMatch(frameLine), firefoxMatch(frameLine), simpleMatch(frameLine))

\* the path parts that internalPatterns matches by themselves
INTERNAL_PARTS ==
  {"logrect", "loggerect", "sourceTracker", "decorators", "native code",
   "<anonymous>", "node_modules", "next-server", "react-dom", "async_hooks",
   "loggerUtils", "consoleOutput", "logProcessor"}

\* the pairs of neighbouring lexemes that internalPatterns matches:
\* logger.ts, logger.js, hooks.ts, hooks.js (and their x variants), node:,
\* next/dist, .next/, react/jsx
InternalPair(a, b, c) ==
  \/ a \in {"logger", "hooks"} /\ b \in {".ts", ".tsx", ".js", ".jsx"}
  \/ a = "node" /\ b = ":"
  \/ a = "next" /\ b = "/" /\ c = "dist"
  \/ a = ".next" /\ b = "/"
  \/ a = "react" /\ b = "/" /\ c = "jsx"

\* isInternalFrame(frame)
isInternalFrame(frame) ==
  IF frame.filePath \in {null, <<>>} THEN TRUE
  ELSE \E k \in 1..Len(frame.filePath) :
         \/ frame.filePath[k] \in INTERNAL_PARTS
         \/ InternalPair(frame.filePath[k], At(frame.filePath, k + 1),
                         At(frame.filePath, k + 2))

\* cleaned.indexOf("/" + name + "/")
IndexOfPart(path, name) ==
  LET hits == {k \in 1..(Len(path) - 2) :
                 path[k] = "/" /\ path[k + 1] = name /\ path[k + 2] = "/"}
  IN IF hits = {} THEN NotFound ELSE CHOOSE k \in hits : \A j \in hits : k <= j

\* the path without query, fragment and file scheme, not cut at any marker
schemeStripped(filePath) == StripFileScheme(BeforeFirst(BeforeFirst(filePath, "?"), "#"))

\* pathUtils' cleanFilePath(filePath), for a path that isBundledPath rejects
\* and that has no webpack prefix
resolverCleanFilePath(filePath) ==
  LET cleaned == StripFileScheme(BeforeFirst(BeforeFirst(filePath, "?"), "#"))
      srcIndex == IndexOfPart(cleaned, "src")
      appIndex == IndexOfPart(cleaned, "app")
      componentsIndex == IndexOfPart(cleaned, "components")
  IN IF filePath = <<>> THEN <<>>
     ELSE IF Includes(cleaned, "node_modules")
             \/ (Len(cleaned) >= 2 /\ cleaned[1] = "node" /\ cleaned[2] = ":")
     THEN <<>>
     ELSE IF srcIndex # NotFound
     THEN SubSeq(cleaned, srcIndex + 1, Len(cleaned))
     ELSE IF appIndex # NotFound
     THEN SubSeq(cleaned, appIndex + 1, Len(cleaned))
     ELSE IF componentsIndex # NotFound
     THEN SubSeq(cleaned, componentsIndex + 1, Len(cleaned))
     ELSE cleaned

(* pathUtils' isBundledPath and the bundled branch of cleanFilePath.  A    *)
(* scheme ("webpack://", "turbopack://"), a word, a dot with what follows  *)
(* it up to the next dot or slash (".js", ".6e37f64f"), "[bundled:" and    *)
(* "[bundled]" are one path lexeme each.                                   *)

\* the schemes; each ends with a slash
SCHEMES == {"file://", "webpack://", "webpack-internal://", "turbopack://"}

\* the lexemes \.(js|ts|tsx|jsx)$ matches
SOURCE_EXTENSIONS == {".js", ".ts", ".tsx", ".jsx"}

\* the lexemes in which \.(js|ts|tsx|jsx) matches, unanchored
EXTENSION_STARTS == SOURCE_EXTENSIONS \cup {".json"}

\* the lexemes \.[a-f0-9]{6,} matches
DOT_HASHES == {".6e37f64f"}

\* the lexemes that begin with a dot
DOT_LEXEMES == EXTENSION_STARTS \cup DOT_HASHES \cup {".css", ".hot-update"}

\* the words of eight hexadecimal digits
HEX_WORDS == {"6e37f64f", "ff82d9a5"}

\* filePath.includes(parts)
IncludesParts(path, parts) ==
  \E k \in 1..(Len(path) - Len(parts) + 1) : SubSeq(path, k, k + Len(parts) - 1) = parts

\* filePath.split("/").pop()
LastSegment(path) ==
  LET seps == {k \in 1..Len(path) : path[k] = "/"}
  IN SubSeq(path, IF seps = {} THEN 1 ELSE MaxOf(seps) + 1, Len(path))

isBundledPath(filePath) ==
  \/ IncludesParts(filePath, <<"/", "_next", "/">>)
  \/ IncludesParts(filePath, <<"/", "chunks", "/">>)
  \/ Includes(filePath, "webpack://")
  \/ Includes(filePath, "webpack-internal://")
  \/ Includes(filePath, "turbopack://")
  \/ Includes(filePath, "__turbopack__")
  \/ (Len(filePath) >= 1 /\ filePath[1] \in {"[bundled:", "[bundled]"})
  \/ \E k \in 1..(Len(filePath) - 1) :
       filePath[k] \in DOT_HASHES /\ filePath[k + 1] \in DOT_LEXEMES
  \/ \E k \in 1..(Len(filePath) - 1) :
       filePath[k] = ".hot-update" /\ filePath[k + 1] \in DOT_LEXEMES
  \/ Includes(filePath, "node_modules__pnpm")
  \/ Includes(filePath, "node_modules__npm")
  \/ (Len(LastSegment(filePath)) = 1 /\ LastSegment(filePath)[1] \in HEX_WORDS)

\* the least element of a non-empty set of indices
MinOf(S) == CHOOSE x \in S : \A y \in S : x <= y

\* text.replace(/\.(js|ts|tsx|jsx)$/, "")
withoutExtension(text) ==
  IF Len(text) >= 1 /\ text[Len(text)] \in SOURCE_EXTENSIONS
  THEN SubSeq(text, 1, Len(text) - 1)
  ELSE text

\* cleaned.match(/\[bundled:\s*([^\]]+)\]/): group 1, or <<>> without a match
bundledMatch(cleaned) ==
  LET opens == {k \in 1..Len(cleaned) :
                  /\ cleaned[k] = "[bundled:"
                  /\ \E c \in (k + 2)..Len(cleaned) :
                       /\ cleaned[c] = "]"
                       /\ \A j \in (k + 1)..(c - 1) : cleaned[j] # "]"}
  IN IF opens = {} THEN <<>>
     ELSE LET k == MinOf(opens)
              c == MinOf({j \in (k + 2)..Len(cleaned) : cleaned[j] = "]"})
              blanks == {j \in (k + 1)..(c - 1) :
                           \A i \in (k + 1)..j : cleaned[i] = " "}
              first == IF blanks = {} THEN k + 1
                       ELSE IF MaxOf(blanks) = c - 1 THEN c - 1
                       ELSE MaxOf(blanks) + 1
          IN SubSeq(cleaned, first, c - 1)

\* cleaned.match(/node_modules__(?:pnpm|npm)_[^_]+__(.+)/): group 1 with
\* every __ replaced by a slash and the extension removed, or <<>>
turbopackMatch(cleaned) ==
  LET heads == {k \in 1..(Len(cleaned) - 4) :
                  /\ cleaned[k] \in {"node_modules__pnpm", "node_modules__npm"}
                  /\ cleaned[k + 1] = "_"
                  /\ cleaned[k + 2] \notin {"_", "__"}
                  /\ cleaned[k + 3] = "__"}
  IN IF heads = {} THEN <<>>
     ELSE LET rest == SubSeq(cleaned, MinOf(heads) + 4, Len(cleaned))
          IN withoutExtension([j \in 1..Len(rest) |->
                                 IF rest[j] = "__" THEN "/" ELSE rest[j]])

\* text.match(/^[a-f0-9]+$/)
IsHexOnly(text) == text # <<>> /\ \A j \in 1..Len(text) : text[j] \in HEX_WORDS

\* cleaned.match(/turbopack:\/\/[^/]+\/(.+?)(?:\?|$|:)/): group 1 without
\* its extension, or <<>>
turbopackProtocolMatch(cleaned) ==
  LET heads == {k \in 1..(Len(cleaned) - 3) :
                  /\ cleaned[k] = "turbopack://"
                  /\ cleaned[k + 1] # "/"
                  /\ \E c \in (k + 2)..(Len(cleaned) - 1) :
                       /\ cleaned[c] = "/"
                       /\ \A j \in (k + 1)..(c - 1) : cleaned[j] # "/"}
  IN IF heads = {} THEN <<>>
     ELSE LET k == MinOf(heads)
              c == MinOf({j \in (k + 2)..Len(cleaned) : cleaned[j] = "/"})
              stops == {j \in (c + 2)..Len(cleaned) : cleaned[j] = ":"}
              last == IF stops = {} THEN Len(cleaned) ELSE MinOf(stops) - 1
          IN withoutExtension(SubSeq(cleaned, c + 1, last))

\* cleaned.match(/(?:^|\/)(marker\/[^?]+)\.(js|ts|tsx|jsx)/): group 1, or
\* <<>> without a match
markerMatch(cleaned, marker) ==
  LET extensions == {j \in 1..Len(cleaned) : cleaned[j] \in EXTENSION_STARTS}
      starts == {k \in 1..(Len(cleaned) - 3) :
                   /\ cleaned[k] = marker
                   /\ cleaned[k + 1] = "/"
                   /\ (k = 1 \/ cleaned[k - 1] \in {"/"} \cup SCHEMES)
                   /\ \E j \in extensions : j >= k + 3}
  IN IF starts = {} THEN <<>>
     ELSE SubSeq(cleaned, MinOf(starts), MaxOf(extensions) - 1)

\* cleaned.match(/chunks\/([^/.]+)/): group 1, or <<>> without a match
turboMatch(cleaned) ==
  LET names == {k \in 3..Len(cleaned) :
                  /\ cleaned[k - 2] = "chunks"
                  /\ cleaned[k - 1] = "/"
                  /\ cleaned[k] \notin {"/"} \cup DOT_LEXEMES}
  IN IF names = {} THEN <<>>
     ELSE LET k == MinOf(names)
              stops == {j \in k..Len(cleaned) : cleaned[j] \in {"/"} \cup DOT_LEXEMES}
          IN SubSeq(cleaned, k, IF stops = {} THEN Len(cleaned) ELSE MinOf(stops) - 1)

\* the project-root markers, in the order cleanFilePath tries them
BUNDLED_MARKERS == <<"app", "pages", "src", "components">>

\* the match of the marker that stands first in the path, whatever its rank
earliestMarkerMatch(cleaned) ==
  LET matching == {m \in 1..Len(BUNDLED_MARKERS) :
                     markerMatch(cleaned, BUNDLED_MARKERS[m]) # <<>>}
      earliest == CHOOSE m \in matching : \A n \in matching :
                    Len(markerMatch(cleaned, BUNDLED_MARKERS[m]))
                      >= Len(markerMatch(cleaned, BUNDLED_MARKERS[n]))
  IN IF matching = {} THEN <<>> ELSE markerMatch(cleaned, BUNDLED_MARKERS[earliest])

\* the match of the first marker of BUNDLED_MARKERS that matches, or <<>>
firstMarkerMatch(cleaned) ==
  LET matching == {m \in 1..Len(BUNDLED_MARKERS) :
                     markerMatch(cleaned, BUNDLED_MARKERS[m]) # <<>>}
  IN IF matching = {} THEN <<>> ELSE markerMatch(cleaned, BUNDLED_MARKERS[MinOf(matching)])

\* the generic placeholder, with the chunk name when it is no hash
bundledPlaceholder(cleaned) ==
  LET name == turboMatch(cleaned)
  IN IF name # <<>> /\ \E j \in 1..Len(name) : name[j] \notin HEX_WORDS \cup {"_", "__"}
     THEN <<"[bundled:", " ">> \o name \o <<"]">>
     ELSE <<"[bundled]">>

\* the bundled branch of cleanFilePath
cleanBundledPath(cleaned) ==
  IF bundledMatch(cleaned) # <<>> THEN bundledMatch(cleaned)
  ELSE IF /\ Includes(cleaned, "node_modules__pnpm") \/ Includes(cleaned, "node_modules__npm")
          /\ turbopackMatch(cleaned) # <<>>
          /\ ~IsHexOnly(turbopackMatch(cleaned))
  THEN turbopackMatch(cleaned)
  ELSE IF Includes(cleaned, "turbopack://") /\ turbopackProtocolMatch(cleaned) # <<>>
  THEN turbopackProtocolMatch(cleaned)
  ELSE IF firstMarkerMatch(cleaned) # <<>> THEN firstMarkerMatch(cleaned)
  ELSE bundledPlaceholder(cleaned)

\* pathUtils' cleanFilePath(filePath)
runtimeCleanFilePath(filePath) ==
  LET cleaned == BeforeFirst(BeforeFirst(filePath, "?"), "#")
  IN IF filePath = <<>> THEN <<>>
     ELSE IF isBundledPath(cleaned) THEN cleanBundledPath(cleaned)
     ELSE resolverCleanFilePath(filePath)

\* the words that internalPatterns of getSourceLocation matches by themselves
INTERNAL_NAMES ==
  {"react_stack", "react_internal", "AsyncResource", "runInAsyncScope",
   "processTicksAndRejections", "nextTick", "anonymous", "<anonymous>"}

\* internalPatterns.some((pattern) => functionName.includes(pattern)), the
\* patterns "Object." and "node:" being pairs of lexemes
NameIsInternal(functionName) ==
  \E k \in 1..Len(functionName) :
    \/ functionName[k] \in INTERNAL_NAMES
    \/ functionName[k] = "Object" /\ At(functionName, k + 1) = "."
    \/ functionName[k] = "node" /\ At(functionName, k + 1) = ":"

\* the identifiers of the model that match [A-Z][a-zA-Z0-9]*
CAPITALIZED == {"A", "App", "Foo", "Object", "AsyncResource"}

\* the identifiers of the model that are one character long
SINGLE_CHARACTERS == {"A", "k"}

\* the className getSourceLocation derives from a function name
classNameOf(functionName) ==
  IF functionName \in {null, <<>>} THEN null
  ELSE IF NameIsInternal(functionName) THEN null
  ELSE IF functionName[1] \in CAPITALIZED /\ At(functionName, 2) = "."
  THEN <<functionName[1]>>
  ELSE IF Len(functionName) = 1 /\ functionName[1] \in CAPITALIZED
  THEN functionName
  ELSE null

\* an answer that ignores the configuration
alwaysInclude(currentConfig) == TRUE

\* shouldIncludeSourcePath()
shouldIncludeSourcePath(currentConfig) ==
  IF currentConfig.includeSourcePath = "auto"
  THEN currentConfig.environment = "development"
  ELSE currentConfig.includeSourcePath = "true"

RECURSIVE ParseFrames(_)
\* for (const line of lines) { const frame = parseStackFrame(line); if (frame) frames.push(frame) }
ParseFrames(lines) ==
  IF lines = <<>> THEN <<>>
  ELSE parseStackFrame(Head(lines)) \o ParseFrames(Tail(lines))

\* the loop over frames: the index at which it breaks, or the initial
\* userFrameIndex when it ends without a break
FindUserFrame(parsed, skip) ==
  LET nonInternalBefore(i) ==
        Cardinality({j \in 1..(i - 1) : ~isInternalFrame(parsed[j])})
      breaks == {i \in 1..Len(parsed) :
                   ~isInternalFrame(parsed[i]) /\ nonInternalBefore(i) >= skip}
  IN IF breaks = {} THEN 1 ELSE CHOOSE i \in breaks : \A j \in breaks : i <= j

\* the assignments to result once targetFrame is chosen
LocationOf(targetFrame) ==
  [functionName |-> targetFrame.functionName,
   lineNumber |-> targetFrame.lineNumber,
   columnNumber |-> targetFrame.columnNumber,
   fullPath |-> targetFrame.filePath,
   filePath |-> IF targetFrame.filePath \in {null, <<>>} THEN null
                ELSE runtimeCleanFilePath(targetFrame.filePath),
   fileName |-> IF targetFrame.filePath \in {null, <<>>} THEN null
                ELSE extractFileName(targetFrame.filePath),
   className |-> classNameOf(targetFrame.functionName)]

\* a || b for strings: the first that is neither null nor empty
OrElse(a, b) == IF a \notin {null, <<>>} THEN a ELSE IF b \notin {null, <<>>} THEN b ELSE null

\* a || b for numbers: the first that is neither null nor 0
OrElseNumber(a, b) ==
  IF a \notin {NullNumber, 0} THEN a ELSE IF b \notin {NullNumber, 0} THEN b ELSE NullNumber

\* createLogEntry's filter of the function name
entryFunctionName(functionName) ==
  IF functionName \in {null, <<>>} THEN null
  ELSE IF Len(functionName) = 1 /\ functionName[1] \in SINGLE_CHARACTERS THEN null
  ELSE IF NameIsInternal(functionName) \/ Includes(functionName, "react-dom") THEN null
  ELSE functionName

\* context?.metadata?.__source
injectedSourceOf(logContext) ==
  IF "__source" \in DOMAIN logContext.metadata
  THEN logContext.metadata["__source"]
  ELSE NoSource

\* delete object[key]
deleteProperty(object, key) == [k \in DOMAIN object \ {key} |-> object[k]]

\* { ...object, [key]: value }
withProperty(object, key, value) ==
  [k \in DOMAIN object \cup {key} |-> IF k = key THEN value ELSE object[k]]

\* const cleanMetadata = { ...context?.metadata } without the deletion
copiedMetadata(logContext) == logContext.metadata

\* const cleanMetadata = { ...context?.metadata }; delete cleanMetadata.__source
cleanMetadata(logContext) == deleteProperty(logContext.metadata, "__source")

\* the location fields and the metadata createLogEntry stamps on the entry
createLogEntry(logContext, location) ==
  LET injectedSource == injectedSourceOf(logContext)
  IN [sourcePath |-> OrElse(injectedSource.file, location.filePath),
      lineNumber |-> OrElseNumber(injectedSource.line, location.lineNumber),
      columnNumber |-> OrElseNumber(injectedSource.column, location.columnNumber),
      functionName |-> entryFunctionName(location.functionName),
      componentName |-> OrElse(logContext.componentName, location.className),
      metadata |-> IF logContext.componentId \notin {null, <<>>}
                   THEN withProperty(cleanMetadata(logContext), "componentId",
                                     logContext.componentId)
                   ELSE cleanMetadata(logContext)]

(* One log call: createLogEntry calls getSourceLocation(skipFrames), which  *)
(* captures the stack, parses its lines, chooses the target frame and      *)
(* fills the record; createLogEntry then stamps the entry.                 *)

\* getSourceLocation's entry: the all-null result, the configuration test,
\* the capture of the stack inside try, and the test of the stack
GetSourceLocation ==
  /\ rpc = "call"
  /\ sourceLocation' = EmptyLocation
  /\ rpc' = IF ~shouldIncludeSourcePath(config) THEN "entry"
            ELSE IF stack.kind = "none" THEN "entry"
            ELSE IF stack.kind = "object" THEN "entry"
            ELSE "parse"
  /\ UNCHANGED <<config, stack, skipFrames, context, call, frames, userFrameIndex, entry>>
  /\ UNCHANGED rewriterVars
  /\ UNCHANGED loggerVars

\* const lines = stack.split("\n") and the loop that parses them
ParseLines ==
  /\ rpc = "parse"
  /\ frames' = ParseFrames(stack.lines)
  /\ rpc' = "select"
  /\ UNCHANGED <<config, stack, skipFrames, context, call, userFrameIndex, sourceLocation, entry>>
  /\ UNCHANGED rewriterVars
  /\ UNCHANGED loggerVars

\* let userFrameIndex = 0; let skipped = 0; for (...) { ... }
SelectFrame ==
  /\ rpc = "select"
  /\ userFrameIndex' = FindUserFrame(frames, skipFrames)
  /\ rpc' = "fill"
  /\ UNCHANGED <<config, stack, skipFrames, context, call, frames, sourceLocation, entry>>
  /\ UNCHANGED rewriterVars
  /\ UNCHANGED loggerVars

\* const targetFrame = frames[userFrameIndex]; if (targetFrame) { ... }
FillLocation ==
  /\ rpc = "fill"
  /\ sourceLocation' = IF userFrameIndex <= Len(frames)
                       THEN LocationOf(frames[userFrameIndex])
                       ELSE sourceLocation
  /\ rpc' = "entry"
  /\ UNCHANGED <<config, stack, skipFrames, context, call, frames, userFrameIndex, entry>>
  /\ UNCHANGED rewriterVars
  /\ UNCHANGED loggerVars

\* createLogEntry after getSourceLocation has returned
CreateLogEntry ==
  /\ rpc = "entry"
  /\ entry' = createLogEntry(context, sourceLocation)
  /\ rpc' = "done"
  /\ UNCHANGED <<config, stack, skipFrames, context, call, frames, userFrameIndex, sourceLocation>>
  /\ UNCHANGED rewriterVars
  /\ UNCHANGED loggerVars

NextResolver ==
  \/ GetSourceLocation
  \/ ParseLines
  \/ SelectFrame
  \/ FillLocation
  \/ CreateLogEntry

\* the rewriter's variables while the resolver runs
RewriterIdle ==
  /\ code = <<>>
  /\ id = <<>>
  /\ pc = "idle"
  /\ s = MagicString(<<>>)
  /\ hasChanges = FALSE
  /\ ret = <<>>
  /\ allMatches = <<>>
  /\ result = <<>>
  /\ history = <<>>

\* a context whose metadata holds the given __source and nothing else
SourceContext(injectedSource) ==
  [EmptyContext EXCEPT !.metadata =
     IF injectedSource = NoSource THEN NoProperties
     ELSE withProperty(NoProperties, "__source", injectedSource)]

\* a log call is made with the given configuration, stack and context
Call(currentConfig, errorStack, skip, logContext) ==
  /\ RewriterIdle
  /\ LoggerIdle
  /\ config = currentConfig
  /\ stack = errorStack
  /\ skipFrames = skip
  /\ context = logContext
  /\ call = NoCallSite
  /\ frames = <<>>
  /\ userFrameIndex = 1
  /\ sourceLocation = EmptyLocation
  /\ entry = EmptyEntry
  /\ rpc = "call"

----------------------------------------------------------------------------
(* Stack lines of the three shapes, complete and with a defective line or  *)
(* column part, each parsed as the only line of a stack.                   *)

\* the leading spaces of an at-line
MaxIndent == 2

FrameNames == {<<"f">>, <<"Foo", ".", "bar">>, <<"async", " ", "f">>}

\* src/app.ts, http://localhost:12/a.js, /node_modules/@scope/x.js
FramePaths ==
  { <<"src", "/", "app", ".ts">>,
    <<"http", ":", "/", "/", "localhost", ":", "12", "/", "a", ".js">>,
    <<"/", "node_modules", "/", "@", "scope", "/", "x", ".js">> }

\* a line or column part: a run of digits, a word ("x"), or nothing ("")
NumberParts == DIGITS \cup {"x", ""}

\* the parts a line can end with: a missing line part comes with a missing
\* column part
LineColumns ==
  {lc \in NumberParts \X NumberParts : lc[1] = "" => lc[2] = ""}

Indent(n) == [k \in 1..n |-> " "]

Suffix(l, c) ==
  (IF l = "" THEN <<>> ELSE <<":", l>>) \o (IF c = "" THEN <<>> ELSE <<":", c>>)

\* at f (p:l:c)
AtForm(n, f, p, l, c) ==
  Indent(n) \o <<"at", " ">> \o f \o <<" ", "(">> \o p \o Suffix(l, c) \o <<")">>

\* at p:l:c
AtPathForm(n, p, l, c) == Indent(n) \o <<"at", " ">> \o p \o Suffix(l, c)

\* f@p:l:c
NameAtForm(f, p, l, c) == f \o <<"@">> \o p \o Suffix(l, c)

\* p:l:c
PathForm(p, l, c) == p \o Suffix(l, c)

TextStack(lines) == [kind |-> "text", lines |-> lines]

InitParse ==
  \E n \in 0..MaxIndent, f \in FrameNames, p \in FramePaths, lc \in LineColumns :
    \E line \in {AtForm(n, f, p, lc[1], lc[2]), AtPathForm(n, p, lc[1], lc[2]),
                 NameAtForm(f, p, lc[1], lc[2]), PathForm(p, lc[1], lc[2])} :
      Call(DefaultConfig, TextStack(<<line>>), 0, EmptyContext)

SpecParse == InitParse /\ [][NextResolver]_vars

\* the lines of the stack have been parsed
Parsed == rpc \in {"select", "fill", "entry", "done"}

\* the value of a line or column part: null unless it is a run of digits
PartValue(part) == IF part \in DIGITS THEN DigitValue(part) ELSE NullNumber

\* frames holds exactly one frame, with these four fields
ParsesTo(functionName, filePath, l, c) ==
  /\ Len(frames) = 1
  /\ frames[1].functionName = functionName
  /\ frames[1].filePath = filePath
  /\ frames[1].lineNumber = PartValue(l)
  /\ frames[1].columnNumber = PartValue(c)

\* C15: for every function name f, path p, line l and column c, the lines
\* "at f (p:l:c)", with any leading whitespace, and "f@p:l:c" parse to the
\* frame { functionName: f, filePath: p, lineNumber: l, columnNumber: c },
\* and "at p:l:c" and "p:l:c" parse to the same frame with functionName
\* null.
C15_BothConventionsSameFrame ==
  Parsed =>
    \A n \in 0..MaxIndent, f \in FrameNames, p \in FramePaths, l \in DIGITS, c \in DIGITS :
      /\ stack.lines[1] \in {AtForm(n, f, p, l, c), NameAtForm(f, p, l, c)}
           => ParsesTo(f, p, l, c)
      /\ stack.lines[1] \in {AtPathForm(n, p, l, c), PathForm(p, l, c)}
           => ParsesTo(null, p, l, c)

\* C16: in each of the three shapes, a line whose line or column part is
\* missing or not a number still parses to a frame, with that field null and
\* the other fields filled; parseStackFrame does not return null for it.
C16_DefectivePartOnlyNull ==
  Parsed =>
    \A n \in 0..MaxIndent, f \in FrameNames, p \in FramePaths, lc \in LineColumns :
      (lc[1] \notin DIGITS \/ lc[2] \notin DIGITS) =>
        /\ stack.lines[1] \in {AtForm(n, f, p, lc[1], lc[2]),
                               NameAtForm(f, p, lc[1], lc[2])}
             => ParsesTo(f, p, lc[1], lc[2])
        /\ stack.lines[1] \in {AtPathForm(n, p, lc[1], lc[2]),
                               PathForm(p, lc[1], lc[2])}
             => ParsesTo(null, p, lc[1], lc[2])

----------------------------------------------------------------------------
(* Log calls: every configuration, every skip count up to MaxSkip, a       *)
(* context with or without an injected __source, and a captured stack of   *)
(* up to MaxFrames lines, no stack, or a stack that is not a string.       *)

\* the lines of a captured stack
MaxFrames == 3

\* the greatest skipFrames argument
MaxSkip == 2

\* /proj/src/<name><extension>
UserPath(name, extension) == <<"/", "proj", "/", "src", "/", name, extension>>

\* the header line, a native frame, a frame of the library, frames of user
\* code (one minified, one in a method of Object)
StackLines ==
  { <<"Error">>,
    <<" ", "at", " ", "Array", ".", "map", " ", "(", "<anonymous>", ")">>,
    AtForm(1, <<"log">>,
           <<"/", "proj", "/", "node_modules", "/", "logrect", "/", "dist", "/",
             "index", ".js">>, "1", "1"),
    AtForm(1, <<"App">>, UserPath("App", ".tsx"), "12", "4"),
    AtForm(1, <<"Foo", ".", "bar">>, UserPath("Foo", ".tsx"), "7", "1"),
    AtForm(1, <<"A">>, UserPath("a", ".js"), "1", "12"),
    AtForm(1, <<"Object", ".", "k">>, UserPath("x", ".ts"), "4", "7") }

Stacks ==
  {[kind |-> "none", lines |-> <<>>], [kind |-> "object", lines |-> <<>>]}
  \cup {TextStack(lines) : lines \in Strings(StackLines, MaxFrames) \ {<<>>}}

Configs ==
  { DefaultConfig,
    [DefaultConfig EXCEPT !.environment = "production"],
    [DefaultConfig EXCEPT !.includeSourcePath = "false"],
    [DefaultConfig EXCEPT !.includeSourcePath = "true", !.environment = "production"] }

\* what useLogger puts in the metadata for the object the rewriter injects
\* ({ fileName, lineNumber }, no columnNumber)
InjectedSource ==
  [file |-> <<"src", "/", "App", ".tsx">>, line |-> 3, column |-> NullNumber]

InitLogCall ==
  \E currentConfig \in Configs, errorStack \in Stacks, skip \in 0..MaxSkip,
     injectedSource \in {NoSource, InjectedSource} :
    Call(currentConfig, errorStack, skip, SourceContext(injectedSource))

SpecResolve == InitLogCall /\ [][NextResolver]_vars

\* getSourceLocation has returned
Returned == rpc \in {"entry", "done"}

\* the indices of the parsed frames that are not internal
UserFrames == {i \in 1..Len(frames) : ~isInternalFrame(frames[i])}

\* the frame that is preceded by exactly skipFrames non-internal frames
FrameAfterSkip ==
  CHOOSE i \in UserFrames : Cardinality({j \in UserFrames : j < i}) = skipFrames

\* the stack is captured and parsed
Resolving == shouldIncludeSourcePath(config) /\ stack.kind = "text"

\* C17: getSourceLocation(skipFrames) attributes a log call only to the
\* parsed non-internal frame that is preceded by exactly skipFrames
\* non-internal frames; when there is no such frame it uses no frame and
\* returns the record with every field null.
C17_OnlyNonInternalFrameUsed ==
  (Returned /\ Resolving) =>
    IF Cardinality(UserFrames) > skipFrames
    THEN sourceLocation = LocationOf(frames[FrameAfterSkip])
    ELSE sourceLocation = EmptyLocation

\* source paths are not to be included
Disabled ==
  \/ config.includeSourcePath = "false"
  \/ config.includeSourcePath = "auto" /\ config.environment # "development"

\* C18: getSourceLocation never raises: when no stack text is available,
\* when source paths are disabled, or when the parsing throws (the stack is
\* not a string), the call returns and its record has every field null.
C18_AllNullWithoutStack ==
  /\ rpc \in {"call", "parse", "select", "fill", "entry", "done"}
  /\ (Returned /\ (Disabled \/ stack.kind \in {"none", "object"}))
       => sourceLocation = EmptyLocation

\* a call with source paths disabled returned, with a stack whose first
\* frame is user code
C18_Witness ==
  /\ rpc = "done"
  /\ Disabled
  /\ stack.kind = "text"
  /\ parseStackFrame(stack.lines[1]) # <<>>
  /\ ~isInternalFrame(parseStackFrame(stack.lines[1])[1])
  /\ sourceLocation = EmptyLocation

\* C19: the className of a resolved location is non-null only when the
\* selected frame's function name is not internal or minified: a function
\* name with an internal marker, or of a single character, yields no
\* className; any other name yields the capitalized identifier before its
\* first dot, or the whole name when it is one capitalized identifier.
C19_NoClassNameForInternalOrMinified ==
  (Returned /\ sourceLocation.functionName # null) =>
    LET name == sourceLocation.functionName
    IN IF NameIsInternal(name) \/ (Len(name) = 1 /\ name[1] \in SINGLE_CHARACTERS)
       THEN sourceLocation.className = null
       ELSE IF name[1] \in CAPITALIZED /\ (Len(name) = 1 \/ name[2] = ".")
       THEN sourceLocation.className = <<name[1]>>
       ELSE sourceLocation.className = null

\* C20: when the context carries an injected __source and the resolver
\* returns a location as well, the entry's sourcePath, lineNumber and
\* columnNumber are the injected ones; none is the resolver's.
C20_InjectedSourceTakesPrecedence ==
  (rpc = "done" /\ injectedSourceOf(context) # NoSource
                /\ sourceLocation # EmptyLocation) =>
    /\ entry.sourcePath = injectedSourceOf(context).file
    /\ entry.lineNumber = injectedSourceOf(context).line
    /\ entry.columnNumber = injectedSourceOf(context).column

----------------------------------------------------------------------------
(* Log calls made through the Logger: a component's hook logger made by    *)
(* useLogger(componentName, options), or a Logger method called with a     *)
(* third argument, as the rewriter leaves a direct logger call.            *)

\* Logger.withContext: child.context = { ...this.context, ...context }
withMetadata(thisContext, metadata) ==
  [thisContext EXCEPT !.metadata =
     [k \in DOMAIN thisContext.metadata \cup DOMAIN metadata |->
        IF k \in DOMAIN metadata THEN metadata[k] ELSE thisContext.metadata[k]]]

\* Logger.forComponent(componentName): the componentId is the name, "_" and
\* the time
forComponent(thisContext, componentName) ==
  [thisContext EXCEPT !.componentName = componentName,
                      !.componentId = componentName \o <<"_", "now">>]

\* the context of the Logger useLogger(componentName, options) returns
useLogger(componentName, options) ==
  LET logContextMetadata ==
        IF "metadata" \in DOMAIN options THEN options["metadata"] ELSE NoProperties
      instance == withMetadata(forComponent(EmptyContext, componentName),
                               logContextMetadata)
  IN IF "__source" \in DOMAIN options
     THEN withMetadata(instance,
            withProperty(NoProperties, "__source",
              [file |-> options["__source"].fileName,
               line |-> options["__source"].lineNumber,
               column |-> NullNumber]))
     ELSE instance

\* Logger.info(message, data): the context handed to createLogEntry; a third
\* argument is no parameter of the method
loggerMethod(thisContext, third) == thisContext

\* message, data and skipFrames of the Logger's level methods
LOGGER_SKIP_FRAMES == 3

\* the object the rewriter injects: { fileName, lineNumber }
Injected == [fileName |-> <<"src", "/", "App", ".tsx">>, lineNumber |-> 3]

\* { __source: { fileName, lineNumber } }
InjectedObject == withProperty(NoProperties, "__source", Injected)

\* the call sites: a hook call and a direct logger call the rewriter has
\* rewritten, and the same calls left as written
CallSites ==
  { [kind |-> k, fileName |-> f.fileName, lineNumber |-> f.lineNumber] :
      k \in {"hook", "method"},
      f \in {Injected, [fileName |-> null, lineNumber |-> NullNumber]} }

MetadataKeys == {"userId", "componentId", "__source"}

\* the values the user's metadata holds under each key
MetadataValue(k) ==
  IF k = "__source" THEN [file |-> <<"x", ".js">>, line |-> 1, column |-> 1]
  ELSE <<k, "1">>

\* the user's metadata objects
Metadatas == {[k \in keys |-> MetadataValue(k)] : keys \in SUBSET MetadataKeys}

\* the stacks a Logger method's call captures: none, or the library's frames
\* followed by frames of user code
EntryStacks ==
  LET library == AtForm(1, <<"log">>,
                   <<"/", "proj", "/", "node_modules", "/", "logrect", "/", "dist",
                     "/", "index", ".js">>, "1", "1")
      user == AtForm(1, <<"App">>, UserPath("App", ".tsx"), "12", "4")
      other == AtForm(1, <<"Foo", ".", "bar">>, UserPath("Foo", ".tsx"), "7", "1")
  IN { [kind |-> "none", lines |-> <<>>],
       TextStack(<<<<"Error">>, library, user>>),
       TextStack(<<<<"Error">>, library, other, other, other, user>>) }

\* the context of the Logger that makes the call at the site
SiteContext(site, metadata) ==
  IF site.kind = "hook"
  THEN LET options ==
             IF site.fileName = null
             THEN withProperty(NoProperties, "metadata", metadata)
             ELSE withProperty(withProperty(NoProperties, "metadata", metadata),
                    "__source",
                    [fileName |-> site.fileName, lineNumber |-> site.lineNumber])
       IN loggerMethod(useLogger(<<"App">>, options), NoProperties)
  ELSE loggerMethod(withMetadata(EmptyContext, metadata),
                    IF site.fileName = null THEN NoProperties ELSE InjectedObject)

InitEntry ==
  \E currentConfig \in Configs, errorStack \in EntryStacks, site \in CallSites,
     metadata \in Metadatas :
    /\ RewriterIdle
    /\ LoggerIdle
    /\ config = currentConfig
    /\ stack = errorStack
    /\ skipFrames = LOGGER_SKIP_FRAMES
    /\ context = SiteContext(site, metadata)
    /\ call = site
    /\ frames = <<>>
    /\ userFrameIndex = 1
    /\ sourceLocation = EmptyLocation
    /\ entry = EmptyEntry
    /\ rpc = "call"

SpecEntry == InitEntry /\ [][NextResolver]_vars

C22_InjectedShapeRecognized ==
  (rpc = "done" /\ call.fileName # null) =>
    /\ entry.sourcePath = call.fileName
    /\ entry.lineNumber = call.lineNumber

----------------------------------------------------------------------------
(* Path cleaning at run time: a log call whose stack holds one frame of    *)
(* user code, with paths as bundlers, dev servers and Node.js write them.  *)

MaxDirs == 2

\* what stands before the directories of a path
PathPrefixes ==
  { <<>>,
    <<"/">>,
    <<"file://", "/", "home", "/">>,
    <<"webpack-internal://", "/">>,
    <<"turbopack://", "project", "/">>,
    <<"/", "_next", "/", "static", "/", "chunks", "/">>,
    <<"/", "proj", "/", "node_modules", "/", "pkg", "/">> }

DirNames == {"lib", "src", "app", "pages", "components"}

\* name/ for each name
Dirs(names) ==
  [j \in 1..(2 * Len(names)) |-> IF j % 2 = 1 THEN names[(j + 1) \div 2] ELSE "/"]

\* a file name and what follows it
FileNames ==
  { <<n>> \o e : n \in {"Button", "6e37f64f"},
                 e \in {<<>>, <<".tsx">>, <<".js">>, <<".json">>, <<".css">>,
                        <<".6e37f64f", ".js">>} }

\* a query or a fragment
PathSuffixes == { <<>>, <<"?", "v">>, <<"#", "L1">> }

\* paths Turbopack writes, and what cleanFilePath has returned before
TurbopackPaths ==
  { <<"[bundled:", " ", "node_modules__pnpm", "_", "ff82d9a5", "]">>,
    <<"[bundled]">>,
    <<"/", "_next", "/", "static", "/", "chunks", "/", "node_modules__pnpm", "_",
      "ff82d9a5", "__", "src", "__", "components", "__", "Button", ".js">>,
    <<"/", "_next", "/", "static", "/", "chunks", "/", "node_modules__npm", "_",
      "ff82d9a5", "__", "6e37f64f", ".js">>,
    <<"/", "_next", "/", "static", "/", "chunks", "/", "node_modules__pnpm", "_",
      "ff82d9a5", ".js">> }

RuntimePaths ==
  { p \o Dirs(ds) \o f \o q : p \in PathPrefixes, ds \in Strings(DirNames, MaxDirs),
                              f \in FileNames, q \in PathSuffixes }
  \cup TurbopackPaths

InitPath ==
  \E p \in RuntimePaths :
    Call(DefaultConfig, TextStack(<<AtForm(1, <<"App">>, p, "12", "4")>>), 0,
         EmptyContext)

SpecPath == InitPath /\ [][NextResolver]_vars

\* the path of the frame the location was taken from, without query and
\* fragment
FramePath == BeforeFirst(BeforeFirst(frames[1].filePath, "?"), "#")

\* the indices at which a src/ marker stands: at the start, after a slash
\* or after a scheme
SrcMarkers(path) ==
  {k \in 1..(Len(path) - 1) :
     /\ path[k] = "src"
     /\ path[k + 1] = "/"
     /\ (k = 1 \/ path[k - 1] \in {"/"} \cup SCHEMES)}

\* the location of a frame was resolved
Located == Returned /\ Len(frames) = 1 /\ frames[1].filePath \notin {null, <<>>}

\* C23 as stated: every path with a src/ marker is cleaned to the text from
\* the marker to the end of the path (query and fragment removed), whatever
\* precedes the marker.
C23_SrcMarkerGivesSuffix ==
  (Located /\ rpc = "done" /\ SrcMarkers(FramePath) # {}) =>
    sourceLocation.filePath
      = SubSeq(FramePath, MinOf(SrcMarkers(FramePath)), Len(FramePath))

\* the path is neither bundled nor inside node_modules nor a node: path
PlainPath(path) ==
  /\ ~isBundledPath(path)
  /\ ~Includes(path, "node_modules")
  /\ ~(Len(path) >= 2 /\ path[1] = "node" /\ path[2] = ":")

\* the indices of the src of each "/src/" of the path
SlashSrc(path) ==
  {k \in 2..(Len(path) - 1) : path[k - 1] = "/" /\ path[k] = "src" /\ path[k + 1] = "/"}

\* C23, amended: a path that is not bundled, holds no node_modules and
\* contains "/src/" is cleaned to the text from the src of its first "/src/"
\* to the end of the path (query and fragment removed).
C23_PlainSrcMarkerGivesSuffix ==
  (Located /\ rpc = "done" /\ PlainPath(FramePath) /\ SlashSrc(FramePath) # {}) =>
    sourceLocation.filePath
      = SubSeq(FramePath, MinOf(SlashSrc(FramePath)), Len(FramePath))

\* a file:// path with a query was cut at its src/ marker
C23_Witness ==
  /\ rpc = "done"
  /\ frames[1].filePath =
       <<"file://", "/", "home", "/", "lib", "/", "src", "/", "Button", ".tsx", "?", "v">>
  /\ sourceLocation.filePath = <<"src", "/", "Button", ".tsx">>

\* the text from the first marker/ that stands at the start or after a
\* slash and has a source extension behind it, up to the last source
\* extension of the path; <<>> when there is none
Recovered(path, marker) ==
  LET dots == {j \in 1..Len(path) : path[j] \in EXTENSION_STARTS}
      at == {k \in 1..(Len(path) - 1) :
               /\ SubSeq(path, k, k + 1) = <<marker, "/">>
               /\ (k = 1 \/ path[k - 1] \in {"/"} \cup SCHEMES)
               /\ \E j \in dots : j > k + 2}
  IN IF at = {} THEN <<>> ELSE SubSeq(path, MinOf(at), MaxOf(dots) - 1)

\* the recovered path of the first marker kind, in the order app, pages,
\* src, components, that recovers one; <<>> when none does
RecoveredInOrder(path) ==
  IF Recovered(path, "app") # <<>> THEN Recovered(path, "app")
  ELSE IF Recovered(path, "pages") # <<>> THEN Recovered(path, "pages")
  ELSE IF Recovered(path, "src") # <<>> THEN Recovered(path, "src")
  ELSE Recovered(path, "components")

\* "[bundled]", or "[bundled: name]" for a chunk name
IsPlaceholder(path) ==
  \/ path = <<"[bundled]">>
  \/ /\ Len(path) >= 4
     /\ SubSeq(path, 1, 2) = <<"[bundled:", " ">>
     /\ path[Len(path)] = "]"
     /\ \E j \in 3..(Len(path) - 1) : path[j] \notin HEX_WORDS \cup {"_", "__"}

\* the path has a segment that is or holds a hash
Hashed(path) == \E j \in 1..Len(path) : path[j] \in HEX_WORDS \cup DOT_HASHES

\* C25 as stated: a bundled path is cleaned to what the first of the
\* markers app/, pages/, src/, components/ recovers, and a path with a
\* hashed segment to the placeholder "[bundled]" or "[bundled: name]" when
\* no marker recovers a path.
C25_MarkersInPriorityOrder ==
  (Located /\ rpc = "done" /\ isBundledPath(FramePath)) =>
    IF RecoveredInOrder(FramePath) # <<>>
    THEN sourceLocation.filePath = RecoveredInOrder(FramePath)
    ELSE Hashed(FramePath) => IsPlaceholder(sourceLocation.filePath)

\* one of the Turbopack rules that precede the markers may apply
TurbopackShaped(path) ==
  \/ Includes(path, "[bundled:")
  \/ Includes(path, "node_modules__pnpm")
  \/ Includes(path, "node_modules__npm")
  \/ Includes(path, "turbopack://")

\* C25, amended: the statement holds of the bundled paths without a
\* "[bundled: ...]" annotation, a node_modules__pnpm or node_modules__npm
\* chunk name and a turbopack:// scheme.
C25_MarkersInPriorityOrderUnlessTurbopack ==
  (Located /\ rpc = "done" /\ isBundledPath(FramePath) /\ ~TurbopackShaped(FramePath)) =>
    IF RecoveredInOrder(FramePath) # <<>>
    THEN sourceLocation.filePath = RecoveredInOrder(FramePath)
    ELSE Hashed(FramePath) => IsPlaceholder(sourceLocation.filePath)

\* a chunk path with src/ before app/ was cleaned from app/ on
C25_Witness ==
  /\ rpc = "done"
  /\ frames[1].filePath =
       <<"/", "_next", "/", "static", "/", "chunks", "/", "src", "/", "app", "/",
         "Button", ".js">>
  /\ sourceLocation.filePath = <<"app", "/", "Button">>

----------------------------------------------------------------------------
(* SpecTemplate: one call of a monitored identifier whose arguments are    *)
(* identifiers and template literals, with and without interpolations; the *)
(* call stands alone or as the argument of f( ... ), before a comment that *)
(* holds a backquote.                                                      *)

MaxTemplates == 2

TemplateForms ==
  { <<"x">>,
    <<BQ, "a", BQ>>,
    <<BQ, "a", "$", "{", "x", "}", BQ>>,
    <<BQ, "$", "{", "x", "}", "b", "$", "{", "x", "}", BQ>>,
    <<BQ, "$", "{", "f", "(", "x", ")", "}", BQ>> }

InitTemplate ==
  \E name \in CalleeNames, args \in Strings(TemplateForms, MaxTemplates),
     wrapped \in BOOLEAN :
    LET callText == <<name, "(">> \o Join(args) \o <<")">>
    IN Start(IF wrapped
             THEN <<"f", "(">> \o callText \o <<" ", "/", "*", BQ, "*", "/", ")">>
             ELSE callText,
             DefaultPath)

SpecTemplate == InitTemplate /\ [][Next]_vars

\* the call's arguments hold a template literal with an interpolation
Interpolates(text, open, close) ==
  \E i \in open..(close - 1) : text[i] = "$" /\ text[i + 1] = "{"

\* C24: for a balanced call whose arguments include a template literal with
\* an interpolation, findClosingParen returns the index of the call's own
\* closing parenthesis: the scanner has left the template at its closing
\* backquote, so the result is neither -1 nor a later parenthesis.
C24_TemplateInterpolationClosed ==
  \A m \in CallsIn(code) :
    LET j == MatchingParen(code, m.open)
    IN (j # NotFound /\ Interpolates(code, m.open, j))
       => findClosingParen(code, m.open + 1) = j

----------------------------------------------------------------------------
\* the pass before this one was on one logger-method or wrapping call
LoggerOrHocCall(prev) ==
  /\ prev.code[1] \in LOGGER_CALLS \cup LOGRECT_HOCS
  /\ Cardinality(CallsIn(prev.code)) = 1

\* C26: a second pass over the output of a pass that rewrote a
\* logger-method call or a wrapping call makes no further edit: the unplugin
\* reports no change and the loader returns its input, each on its own
\* output.
C26_SecondPassLeavesLoggerAndHoc ==
  (pc = "done" /\ history # <<>>) =>
    LET prev == history[Len(history)]
    IN LoggerOrHocCall(prev) =>
         /\ (prev.ret \notin {null, threw, prev.code} /\ code = prev.ret)
              => TextAfter(code, ret) = code
         /\ (prev.result # prev.code /\ code = prev.result)
              => result = code

----------------------------------------------------------------------------
(* The log processor: processLog, flushLogs and the batch timer, and       *)
(* runTransports.  An entry is the number of the log call that made it.   *)
(* flushLogs runs to its end without interruption, but a transport it      *)
(* invokes may log; a runTransports invocation runs up to its next await   *)
(* and resumes from the microtask queue.                                   *)

MaxEntries == 3

\* the transports the program adds and removes, in tasks of their own
AddedTransports == {"throws", "fulfills"}

\* what no action of the log processor changes
ProcessorFrame ==
  UNCHANGED <<rewriterVars, stack, skipFrames, context, call, frames, userFrameIndex,
              sourceLocation, entry, rpc, timerVars>>

\* [...transports, ...config.transports]
allTransports == transports \o config.transports

RECURSIVE runLoopUnguarded(_, _, _)
\* the for loop without try and catch: the first transport that throws ends
\* the invocation, whose promise is rejected
runLoopUnguarded(run, invoked, reported) ==
  IF run.i > Len(run.all)
  THEN [run |-> [run EXCEPT !.state = "done"], calls |-> invoked, errors |-> reported]
  ELSE LET transport == run.all[run.i]
           invocation == [transport |-> transport, entry |-> run.entry]
       IN IF transport = "throws"
          THEN [run |-> [run EXCEPT !.state = "rejected"],
                calls |-> Append(invoked, invocation), errors |-> reported]
          ELSE [run |-> [run EXCEPT !.state = IF transport = "returns"
                                              THEN "queued" ELSE "awaiting"],
                calls |-> Append(invoked, invocation), errors |-> reported]

RECURSIVE runLoop(_, _, _)
\* for (const transport of allTransports) { try { await transport(entry) }
\* catch (error) { safeConsole.error(...) } }, from transport run.i up to the
\* next await: a transport that throws is reported and the loop goes on; a
\* value that is no promise resumes from the microtask queue
runLoop(run, invoked, reported) ==
  IF run.i > Len(run.all)
  THEN [run |-> [run EXCEPT !.state = "done"], calls |-> invoked, errors |-> reported]
  ELSE LET transport == run.all[run.i]
           invocation == [transport |-> transport, entry |-> run.entry]
       IN IF transport = "throws"
          THEN runLoop([run EXCEPT !.i = @ + 1], Append(invoked, invocation),
                       reported + 1)
          ELSE [run |-> [run EXCEPT !.state = IF transport = "returns"
                                              THEN "queued" ELSE "awaiting"],
                calls |-> Append(invoked, invocation), errors |-> reported]

\* runTransports(entry), up to its first await
runTransports(logEntry) ==
  runLoop([entry |-> logEntry, all |-> allTransports, i |-> 1, state |-> "awaiting"],
          calls, errors)

\* outputToConsole(entry); runTransports(entry)
Deliver(logEntry) ==
  LET started == runTransports(logEntry)
  IN /\ output' = Append(output, logEntry)
     /\ runs' = Append(runs, started.run)
     /\ microtasks' = IF started.run.state = "queued"
                      THEN Append(microtasks, Len(runs) + 1)
                      ELSE microtasks
     /\ calls' = started.calls
     /\ errors' = started.errors

\* control is no longer at the return of flushLogs
Moved(flush) == IF flush.pc = "returned" THEN [flush EXCEPT !.pc = "idle"] ELSE flush

\* processLog(entry), for the entry of the next log call; passes: shouldLog
\* and config.filter let the entry through
processLog(passes) ==
  /\ logged' = logged + 1
  /\ IF ~passes
     THEN UNCHANGED <<accepted, logBatch, batchTimer, timeouts, output, runs,
                      microtasks, calls, errors>>
     ELSE /\ accepted' = Append(accepted, logged + 1)
          /\ IF config.batchLogs
             THEN /\ logBatch' = Append(logBatch, logged + 1)
                  /\ IF batchTimer = NullNumber
                     THEN /\ batchTimer' = logged + 1
                          /\ timeouts' = timeouts \cup {logged + 1}
                     ELSE UNCHANGED <<batchTimer, timeouts>>
                  /\ UNCHANGED <<output, runs, microtasks, calls, errors>>
             ELSE /\ Deliver(logged + 1)
                  /\ UNCHANGED <<logBatch, batchTimer, timeouts>>

\* a logging method is called: from the program, or from a transport that
\* flushLogs has invoked
ProcessLog ==
  /\ logged < MaxEntries
  /\ flushing.pc = "flushing" => (flushing.done > 0 /\ allTransports # <<>>)
  /\ flushing' = Moved(flushing)
  /\ \E passes \in BOOLEAN : processLog(passes)
  /\ ProcessorFrame
  /\ UNCHANGED <<config, transports>>

\* flushLogs with no clearTimeout
flushLogsKeepingTimer(pending) ==
  /\ timeouts' = pending
  /\ batchTimer' = NullNumber
  /\ flushing' = [pc |-> "flushing", batch |-> logBatch, done |-> 0,
                  before |-> Len(accepted)]
  /\ logBatch' = <<>>

\* the head of flushLogs: the timer is cleared, the batch copied and emptied;
\* pending are the timeouts that have not fired
flushLogs(pending) ==
  /\ timeouts' = pending \ {batchTimer}
  /\ batchTimer' = NullNumber
  /\ flushing' = [pc |-> "flushing", batch |-> logBatch, done |-> 0,
                  before |-> Len(accepted)]
  /\ logBatch' = <<>>

\* the batch timer's callback runs: flushLogs()
TimerFires ==
  /\ flushing.pc # "flushing"
  /\ microtasks = <<>>
  /\ \E timeout \in timeouts : flushLogs(timeouts \ {timeout})
  /\ ProcessorFrame
  /\ UNCHANGED <<config, logged, accepted, output, transports, runs, microtasks,
                 calls, errors>>

\* Logger.flush(): flushLogs()
Flush ==
  /\ flushing.pc # "flushing"
  /\ flushLogs(timeouts)
  /\ ProcessorFrame
  /\ UNCHANGED <<config, logged, accepted, output, transports, runs, microtasks,
                 calls, errors>>

\* one pass of batch.forEach
FlushEntry ==
  /\ flushing.pc = "flushing"
  /\ flushing.batch # <<>>
  /\ Deliver(Head(flushing.batch))
  /\ flushing' = [flushing EXCEPT !.batch = Tail(@), !.done = @ + 1]
  /\ ProcessorFrame
  /\ UNCHANGED <<config, logged, accepted, logBatch, batchTimer, timeouts, transports>>

\* flushLogs returns
FlushReturn ==
  /\ flushing.pc = "flushing"
  /\ flushing.batch = <<>>
  /\ flushing' = [flushing EXCEPT !.pc = "returned"]
  /\ ProcessorFrame
  /\ UNCHANGED <<config, logged, accepted, logBatch, batchTimer, timeouts, output,
                 transports, runs, microtasks, calls, errors>>

\* the promise a transport returned is fulfilled or rejected, in a task of
\* its own
Settle ==
  /\ flushing.pc # "flushing"
  /\ microtasks = <<>>
  /\ \E k \in 1..Len(runs) :
       /\ runs[k].state = "awaiting"
       /\ runs' = [runs EXCEPT ![k].state = "queued"]
       /\ microtasks' = Append(microtasks, k)
  /\ flushing' = Moved(flushing)
  /\ ProcessorFrame
  /\ UNCHANGED <<config, logged, accepted, logBatch, batchTimer, timeouts, output,
                 transports, calls, errors>>

\* the first microtask runs: runTransports goes on after its await, into
\* catch when the promise was rejected
Resume ==
  /\ flushing.pc # "flushing"
  /\ microtasks # <<>>
  /\ LET k == Head(microtasks)
         resumed == runLoop([runs[k] EXCEPT !.i = @ + 1], calls,
                            IF runs[k].all[runs[k].i] = "rejects"
                            THEN errors + 1 ELSE errors)
     IN /\ runs' = [runs EXCEPT ![k] = resumed.run]
        /\ microtasks' = IF resumed.run.state = "queued"
                         THEN Append(Tail(microtasks), k)
                         ELSE Tail(microtasks)
        /\ calls' = resumed.calls
        /\ errors' = resumed.errors
  /\ flushing' = Moved(flushing)
  /\ ProcessorFrame
  /\ UNCHANGED <<config, logged, accepted, logBatch, batchTimer, timeouts, output,
                 transports>>

\* addTransport(transport): transports.add(transport)
AddTransport ==
  /\ flushing.pc # "flushing"
  /\ microtasks = <<>>
  /\ \E transport \in AddedTransports :
       transports' = IF \E k \in 1..Len(transports) : transports[k] = transport
                     THEN transports
                     ELSE Append(transports, transport)
  /\ flushing' = Moved(flushing)
  /\ ProcessorFrame
  /\ UNCHANGED <<config, logged, accepted, logBatch, batchTimer, timeouts, output,
                 runs, microtasks, calls, errors>>

\* removeTransport(transport): transports.delete(transport)
RemoveTransport ==
  /\ flushing.pc # "flushing"
  /\ microtasks = <<>>
  /\ \E k \in 1..Len(transports) :
       transports' = SelectSeq(transports, LAMBDA t : t # transports[k])
  /\ flushing' = Moved(flushing)
  /\ ProcessorFrame
  /\ UNCHANGED <<config, logged, accepted, logBatch, batchTimer, timeouts, output,
                 runs, microtasks, calls, errors>>

----------------------------------------------------------------------------
(* Batched logging: config.batchLogs is set, entries are logged from the   *)
(* program and from transports, the batch timer fires and Logger.flush is  *)
(* called.  The timer's callback, the passes of flushLogs and the           *)
(* microtasks are run by the event loop, hence the fairness.               *)

BatchTransports == {<<>>, <<"returns">>, <<"fulfills">>}

InitBatch ==
  \E configured \in BatchTransports :
    /\ RewriterIdle
    /\ LoggerIdle
    /\ config = [DefaultConfig EXCEPT !.batchLogs = TRUE, !.transports = configured]
    /\ stack = [kind |-> "none", lines |-> <<>>]
    /\ skipFrames = 0
    /\ context = EmptyContext
    /\ call = NoCallSite
    /\ frames = <<>>
    /\ userFrameIndex = 1
    /\ sourceLocation = EmptyLocation
    /\ entry = EmptyEntry
    /\ rpc = "idle"

NextBatch ==
  \/ ProcessLog
  \/ TimerFires
  \/ Flush
  \/ FlushEntry
  \/ FlushReturn
  \/ Settle
  \/ Resume

SpecBatch ==
  /\ InitBatch
  /\ [][NextBatch]_vars
  /\ WF_vars(TimerFires)
  /\ WF_vars(FlushEntry)
  /\ WF_vars(FlushReturn)
  /\ WF_vars(Resume)

\* the elements of a sequence
Elements(sequence) == {sequence[k] : k \in 1..Len(sequence)}

\* every accepted entry is queued until it is handed over, and the entries
\* are handed over once each, in acceptance order
QueuedUntilDelivered == accepted = output \o flushing.batch \o logBatch

\* a batch that is not empty has exactly one pending timer, the batch timer,
\* and an empty batch has none
OnePendingTimer ==
  IF logBatch = <<>>
  THEN timeouts = {}
  ELSE batchTimer # NullNumber /\ timeouts = {batchTimer}

\* each run of runTransports is for one handed-over entry, in that order
HandedToTransports == [k \in 1..Len(runs) |-> runs[k].entry] = output

----------------------------------------------------------------------------
(* Transports: entries are handed over at once (batchLogs is off) while    *)
(* transports are added and removed, return, throw, and return promises    *)
(* that are fulfilled or rejected later, each in a task of its own.        *)

ConfiguredTransports == {<<>>, <<"returns">>, <<"rejects">>}

InitTransports ==
  \E configured \in ConfiguredTransports :
    /\ RewriterIdle
    /\ LoggerIdle
    /\ config = [DefaultConfig EXCEPT !.transports = configured]
    /\ stack = [kind |-> "none", lines |-> <<>>]
    /\ skipFrames = 0
    /\ context = EmptyContext
    /\ call = NoCallSite
    /\ frames = <<>>
    /\ userFrameIndex = 1
    /\ sourceLocation = EmptyLocation
    /\ entry = EmptyEntry
    /\ rpc = "idle"

MaxDeliveries == 2

\* a logging method is called while fewer than MaxDeliveries entries were
\* handed over
LogCall == Len(runs) < MaxDeliveries /\ ProcessLog

NextTransports ==
  \/ LogCall
  \/ AddTransport
  \/ RemoveTransport
  \/ Settle
  \/ Resume

SpecTransports == InitTransports /\ [][NextTransports]_vars

\* the transports invoked with an entry, in the order of their invocation
InvokedWith(logEntry) ==
  LET invocations == SelectSeq(calls, LAMBDA c : c.entry = logEntry)
  IN [k \in 1..Len(invocations) |-> invocations[k].transport]

\* the transports a run has invoked: all of them once it is over, else those
\* up to the one it awaits
Reached(run) == SubSeq(run.all, 1, IF run.state = "done" THEN Len(run.all) ELSE run.i)

\* the transports of a run whose error has been caught
Caught(run) ==
  {k \in 1..Len(run.all) :
     \/ run.all[k] = "throws" /\ (k < run.i \/ run.state = "done")
     \/ run.all[k] = "rejects" /\ (k < run.i \/ run.state = "done")}

RECURSIVE Sum(_, _)
Sum(f, n) == IF n = 0 THEN 0 ELSE f[n] + Sum(f, n - 1)

\* a run that is not over waits for a promise that a transport returned, or
\* in the microtask queue
Waiting(k) ==
  /\ runs[k].i \in 1..Len(runs[k].all)
  /\ IF runs[k].all[runs[k].i] \in {"fulfills", "rejects"}
     THEN runs[k].state \in {"awaiting", "queued"}
     ELSE runs[k].state = "queued"
  /\ runs[k].state = "queued" <=> k \in Elements(microtasks)

C29_TransportsReceiveInLogOrder ==
  \A i, j \in 1..Len(calls) :
    i < j /\ calls[i].transport = calls[j].transport => calls[i].entry < calls[j].entry

----------------------------------------------------------------------------
(* Performance timers: Logger.time, Logger.timeEnd and Logger.measure on   *)
(* two loggers.  performanceTimers is one map for the module, from label   *)
(* to start time; every reading of the clock is later than the one before. *)

MaxTimings == 2

LOGGERS == {"logger", "child"}

LABELS == {"fetchData", "render"}

\* what no timer action changes
TimerFrame ==
  UNCHANGED <<rewriterVars, resolverVars, flushing, transports>>

\* time(label): performanceTimers.set(label, { startTime, metadata })
time(label) ==
  IF ~config.performance
  THEN UNCHANGED performanceTimers
  ELSE performanceTimers' = withProperty(performanceTimers, label, now)

\* timeEnd(label) for the timing k: without a timer under the label a warning
\* is logged and null returned; else the timer is deleted, the measurement
\* made and logged
timeEnd(label, k) ==
  IF ~config.performance
  THEN UNCHANGED <<performanceTimers, measurements, warnings, processorVars>>
  ELSE IF label \notin DOMAIN performanceTimers
  THEN /\ warnings' = Append(warnings, label)
       /\ \E passes \in BOOLEAN : processLog(passes)
       /\ UNCHANGED <<performanceTimers, measurements>>
  ELSE /\ performanceTimers' = deleteProperty(performanceTimers, label)
       /\ measurements' = Append(measurements,
                                 [name |-> label, startTime |-> performanceTimers[label],
                                  endTime |-> now,
                                  duration |-> now - performanceTimers[label], of |-> k])
       /\ \E passes \in BOOLEAN : processLog(passes)
       /\ UNCHANGED warnings

\* a timing begins on a logger under a label
Begin(kind) ==
  /\ \E logger \in LOGGERS, label \in LABELS :
       /\ time(label)
       /\ measures' = Append(measures, [kind |-> kind, logger |-> logger, label |-> label,
                                        startTime |-> now, pc |-> "open"])
  /\ now' = now + 1
  /\ UNCHANGED <<measurements, warnings, processorVars>>
  /\ TimerFrame

\* a timing ends
End(kind, outcomes) ==
  /\ \E k \in 1..Len(measures), outcome \in outcomes :
       /\ measures[k].kind = kind
       /\ measures[k].pc = "open"
       /\ timeEnd(measures[k].label, k)
       /\ measures' = [measures EXCEPT ![k].pc = outcome]
  /\ now' = now + 1
  /\ UNCHANGED config
  /\ TimerFrame

\* logger.time(label)
Time == Len(measures) < MaxTimings /\ Begin("time")

\* logger.timeEnd(label), after logger.time(label) on that logger
TimeEnd == measures # <<>> /\ End("time", {"ended"})

\* logger.measure(label, fn), up to await fn()
Measure == Len(measures) < MaxTimings /\ Begin("measure")

\* fn returns or throws, or its promise is fulfilled or rejected: timeEnd in
\* try or in catch, then the result or the error
MeasureEnds == measures # <<>> /\ End("measure", {"returned", "threw"})

InitTimers ==
  /\ RewriterIdle
  /\ ResolverIdle
  /\ LoggerIdle

NextTimers ==
  \/ Measure
  \/ MeasureEnds
  \/ Time
  \/ TimeEnd

SpecTimers == InitTimers /\ [][NextTimers]_vars

\* the measurements made for the timing k
MeasurementsOf(k) == {m \in 1..Len(measurements) : measurements[m].of = k}

\* C30 as stated: every measure call that is over, and every time(label)
\* followed by timeEnd(label), has made exactly one measurement, and no
\* 'Timer does not exist' warning was logged, whatever timings overlap.
C30_OneMeasurementPerTiming ==
  /\ warnings = <<>>
  /\ \A k \in 1..Len(measures) :
       measures[k].pc # "open" => Cardinality(MeasurementsOf(k)) = 1

====
